---- MODULE Spec2Model ----
(***************************************************************************)
(* The proof editor (ProofWidget) of web-app and the rewrite-rule catalog  *)
(* of aris (equivs.rs), as state machines.                                 *)
(*                                                                         *)
(*   Spec        the editor: the proof tree, the UI data and the selected  *)
(*               line, driven by the messages ProofWidget::update handles  *)
(*   OracleSpec  the truth-table test of the catalog                       *)
(*   VerifySpec  verification of one justification by a catalog rule       *)
(*                                                                         *)
(* The proof tree (PooledProof), the parser, the matcher and the           *)
(* evaluator are crates of the repository whose files are not among the    *)
(* sources at hand; they are modelled from the specification's sections    *)
(* 3 and 4.                                                                *)
(***************************************************************************)
EXTENDS Integers, Sequences, FiniteSets, TLC

VARIABLES
    prf,            \* ProofWidget.prf: the proof being edited
    pud,            \* ProofWidget.pud: ref_to_line_depth and ref_to_input
    selected_line,  \* ProofWidget.selected_line (line_ref, or None)
    last,           \* the message update() handled last (history)
    handled,        \* number of messages handled since creation
    oracle,         \* position of bruteforce_equivalence_truthtables
    check,          \* one verify_line call: its inputs and its verdict
    view            \* the feedback rendered next to every line

vars == <<prf, pud, selected_line, last, handled, oracle, check, view>>

(***************************************************************************)
(* Bounds of the model.                                                    *)
(***************************************************************************)
\* Messages update() handles in a run of the editor.
MaxMsgs == 2

\* The number of messages handled by the widget whose view is rendered.
MaxViewMsgs == 2

(***************************************************************************)
(* Sequences.                                                              *)
(***************************************************************************)
Range(s) == {s[i] : i \in DOMAIN s}

IndexOf(s, x) == CHOOSE i \in DOMAIN s : s[i] = x

\* Vec::insert(i, x), 1-based: x becomes element i.
InsertAt(s, i, x) == SubSeq(s, 1, i - 1) \o <<x>> \o SubSeq(s, i, Len(s))

\* Vec::retain(|y| y != x)
Retain(s, x) == SelectSeq(s, LAMBDA y : y # x)

RetainNotIn(s, X) == SelectSeq(s, LAMBDA y : y \notin X)

Restrict(f, D) == [x \in D |-> f[x]]

(***************************************************************************)
(* Expressions (spec section 3): a node is an operator, a name and the     *)
(* ordered argument expressions.                                           *)
(***************************************************************************)
Expr(op, name, args) == [op |-> op, name |-> name, args |-> args]
Taut == Expr("taut", "", <<>>)
Contra == Expr("contra", "", <<>>)
Var(n) == Expr("var", n, <<>>)
Apply(f, a) == Expr("apply", f, <<a>>)
Not(a) == Expr("not", "", <<a>>)
And(a, b) == Expr("and", "", <<a, b>>)
Or(a, b) == Expr("or", "", <<a, b>>)
Impl(a, b) == Expr("impl", "", <<a, b>>)
Bicon(a, b) == Expr("bicon", "", <<a, b>>)

(***************************************************************************)
(* References (spec section 3): opaque handles, one key space counted by   *)
(* next_key, never reused.  None is Option::None; TopRef names the         *)
(* top-level proof where a subproof is expected.                           *)
(***************************************************************************)
PremRef(n) == <<"P", n>>
JustRef(n) == <<"J", n>>
SubRef(n) == <<"S", n>>
None == <<"None", 0>>
TopRef == <<"Top", 0>>

IsPrem(r) == r[1] = "P"
IsJust(r) == r[1] = "J"
IsSub(r) == r[1] = "S"

\* Ord of PjRef (a coproduct: Inl before Inr, then the key).
RefLess(a, b) == \/ IsPrem(a) /\ ~IsPrem(b)
                 \/ a[1] = b[1] /\ a[2] < b[2]

Put(f, k, v) == [x \in DOMAIN f \cup {k} |-> IF x = k THEN v ELSE f[x]]

(***************************************************************************)
(* The proof tree (spec sections 3 and 4.5).                               *)
(*   prem_map  premise -> expression                                       *)
(*   just_map  step -> Justification(expr, rule, deps, sdeps)              *)
(*   sub_map   subproof -> its premise_list and line_list                  *)
(*   top       the top-level proof's premise_list and line_list            *)
(***************************************************************************)
Justification(e, rule, deps, sdeps) ==
    [expr |-> e, rule |-> rule, deps |-> deps, sdeps |-> sdeps]

EmptySubproof == [premise_list |-> <<>>, line_list |-> <<>>]

\* P::new()
NewProof == [prem_map |-> <<>>, just_map |-> <<>>, sub_map |-> <<>>,
             top |-> EmptySubproof, next_key |-> 1]

SubproofAt(p, k) == IF k = TopRef THEN p.top ELSE p.sub_map[k]

WithSubproofAt(p, k, sub) ==
    IF k = TopRef THEN [p EXCEPT !.top = sub]
    ELSE [p EXCEPT !.sub_map = Put(p.sub_map, k, sub)]

Members(sub) == Range(sub.premise_list) \cup Range(sub.line_list)

Containers(p) == {TopRef} \cup DOMAIN p.sub_map

\* The subproof (or the top-level proof) that lists r; None when r is not
\* in the tree.
ContainerOf(p, r) ==
    IF \E k \in Containers(p) : r \in Members(SubproofAt(p, k))
    THEN CHOOSE k \in Containers(p) : r \in Members(SubproofAt(p, k))
    ELSE None

\* parent_of_line(ref) -> Option<SubproofRef>
parent_of_line(p, r) ==
    LET c == ContainerOf(p, r) IN IF c = TopRef THEN None ELSE c

\* lookup_pj(ref): Some for a premise or step of the tree.
lookup_pj(p, r) ==
    IF r \in DOMAIN p.prem_map \cup DOMAIN p.just_map THEN r ELSE None

\* lookup_subproof(ref): Some for a subproof of the tree.
lookup_subproof(p, r) == IF r \in DOMAIN p.sub_map THEN r ELSE None

\* premises() of the proof or subproof k.
premises(p, k) == SubproofAt(p, k).premise_list

\* add_premise(expr) on the proof or subproof k: appended; the new
\* reference is PremRef(p.next_key).
add_premise(p, k, e) ==
    LET new == PremRef(p.next_key)
        sub == SubproofAt(p, k)
        q == WithSubproofAt(p, k,
                 [sub EXCEPT !.premise_list = Append(sub.premise_list, new)])
    IN  [q EXCEPT !.prem_map = Put(p.prem_map, new, e),
                  !.next_key = p.next_key + 1]

\* add_premise_relative(expr, ref, after)
add_premise_relative(p, e, r, after) ==
    LET new == PremRef(p.next_key)
        k == ContainerOf(p, r)
        sub == SubproofAt(p, k)
        i == IndexOf(sub.premise_list, r)
        q == WithSubproofAt(p, k,
                 [sub EXCEPT !.premise_list =
                      InsertAt(sub.premise_list, IF after THEN i + 1 ELSE i, new)])
    IN  [q EXCEPT !.prem_map = Put(p.prem_map, new, e),
                  !.next_key = p.next_key + 1]

\* prepend_step(justification) on the proof or subproof k.
prepend_step(p, k, j) ==
    LET new == JustRef(p.next_key)
        sub == SubproofAt(p, k)
        q == WithSubproofAt(p, k,
                 [sub EXCEPT !.line_list = <<new>> \o sub.line_list])
    IN  [q EXCEPT !.just_map = Put(p.just_map, new, j),
                  !.next_key = p.next_key + 1]

\* add_step_relative(justification, ref, after): ref is a step or a
\* subproof, anywhere in the tree.
add_step_relative(p, j, r, after) ==
    LET new == JustRef(p.next_key)
        k == ContainerOf(p, r)
        sub == SubproofAt(p, k)
        i == IndexOf(sub.line_list, r)
        q == WithSubproofAt(p, k,
                 [sub EXCEPT !.line_list =
                      InsertAt(sub.line_list, IF after THEN i + 1 ELSE i, new)])
    IN  [q EXCEPT !.just_map = Put(p.just_map, new, j),
                  !.next_key = p.next_key + 1]

\* add_subproof_relative(ref, after): a new subproof with no premise and
\* no line yet.
add_subproof_relative(p, r, after) ==
    LET new == SubRef(p.next_key)
        k == ContainerOf(p, r)
        sub == SubproofAt(p, k)
        i == IndexOf(sub.line_list, r)
        q == WithSubproofAt(p, k,
                 [sub EXCEPT !.line_list =
                      InsertAt(sub.line_list, IF after THEN i + 1 ELSE i, new)])
    IN  [q EXCEPT !.sub_map = Put(q.sub_map, new, EmptySubproof),
                  !.next_key = p.next_key + 1]

\* Everything nested in subproof sr, at any depth.
RECURSIVE Descendants(_, _)
Descendants(p, sr) ==
    LET sub == p.sub_map[sr]
    IN  Members(sub) \cup
        UNION {Descendants(p, s) : s \in {x \in Range(sub.line_list) : IsSub(x)}}

\* The tree without the nodes of `gone`: they leave the maps and the lists,
\* and the steps that stay no longer cite them (section 3: a line's
\* dependencies resolve to lines and subproofs of the tree).
WithoutNodes(p, gone) ==
    LET strip(sub) == [premise_list |-> RetainNotIn(sub.premise_list, gone),
                       line_list |-> RetainNotIn(sub.line_list, gone)]
        keepJ == DOMAIN p.just_map \ gone
        keepS == DOMAIN p.sub_map \ gone
    IN  [p EXCEPT
            !.prem_map = Restrict(p.prem_map, DOMAIN p.prem_map \ gone),
            !.just_map = [j \in keepJ |->
                [p.just_map[j] EXCEPT
                    !.deps = RetainNotIn(p.just_map[j].deps, gone),
                    !.sdeps = RetainNotIn(p.just_map[j].sdeps, gone)]],
            !.sub_map = [s \in keepS |-> strip(p.sub_map[s])],
            !.top = strip(p.top)]

\* remove_line(ref): a premise or a step.
remove_line(p, r) == WithoutNodes(p, {r})

\* remove_subproof(ref): the subproof and all that is nested in it.
remove_subproof(p, sr) ==
    IF sr \in DOMAIN p.sub_map THEN WithoutNodes(p, {sr} \cup Descendants(p, sr))
    ELSE p

\* with_mut_premise(ref, |x| *x = e)
with_mut_premise(p, r, e) ==
    IF r \in DOMAIN p.prem_map THEN [p EXCEPT !.prem_map[r] = e] ELSE p

\* with_mut_step(ref, f), j being f's result on the step's justification.
with_mut_step(p, r, j) ==
    IF r \in DOMAIN p.just_map THEN [p EXCEPT !.just_map[r] = j] ELSE p

\* The subproofs that enclose r, innermost first (none at top level).
RECURSIVE Ancestors(_, _)
Ancestors(p, r) ==
    LET k == parent_of_line(p, r)
    IN  IF k = None THEN <<>> ELSE <<k>> \o Ancestors(p, k)

\* What precedes `cur` in the subproof that lists it: every premise when
\* cur is a line, the premises before it when cur is a premise, and the
\* lines before it.
Before(p, cur) ==
    LET sub == SubproofAt(p, ContainerOf(p, cur))
    IN  IF cur \in Range(sub.premise_list)
        THEN Range(SubSeq(sub.premise_list, 1, IndexOf(sub.premise_list, cur) - 1))
        ELSE Range(sub.premise_list) \cup
             Range(SubSeq(sub.line_list, 1, IndexOf(sub.line_list, cur) - 1))

\* can_reference_dep(line_ref, candidate_dep): the candidate precedes
\* line_ref in its own subproof or precedes an enclosing subproof in an
\* ancestor subproof.
can_reference_dep(p, r1, r2) ==
    /\ ContainerOf(p, r1) # None
    /\ ContainerOf(p, r2) # None
    /\ LET chain == <<r1>> \o Ancestors(p, r1)
       IN  \E i \in DOMAIN chain : r2 \in Before(p, chain[i])

(***************************************************************************)
(* The editor: web-app/src/components/proof_widget/mod.rs                  *)
(***************************************************************************)
NoExpr == Expr("none", "", <<>>)

\* Texts a line's entry field is given in the model.
Inputs == {"Q", "("}

\* aris::parser::parse on the texts of the model: None for a text that is
\* no expression.
parse(input) ==
    CASE input = "Q" -> Var("Q")
      [] input = "~Q" -> Not(Var("Q"))
      [] input = "~~Q" -> Not(Not(Var("Q")))
      [] OTHER -> NoExpr

\* Rules the rule menu offers in the model.
MenuRules == {"DOUBLE_NEGATION"}

new_empty_premise == Var("")

new_empty_step == Justification(Var(""), "EmptyRule", <<>>, <<>>)

\* The premises and steps of the tree: the lines the view renders.
Lines(p) == DOMAIN p.prem_map \cup DOMAIN p.just_map

\* The lines of subproof k in document order, each with its depth.
RECURSIVE Walk(_, _, _), WalkLines(_, _, _)
WalkLines(p, lines, depth) ==
    IF lines = <<>> THEN <<>>
    ELSE (IF IsSub(Head(lines)) THEN Walk(p, Head(lines), depth + 1)
          ELSE <<<<Head(lines), depth>>>>)
         \o WalkLines(p, Tail(lines), depth)
Walk(p, k, depth) ==
    LET sub == SubproofAt(p, k)
    IN  [i \in DOMAIN sub.premise_list |-> <<sub.premise_list[i], depth>>]
        \o WalkLines(p, sub.line_list, depth)

\* util::calculate_lineinfo(output, prf.top_level_proof(), &mut 1, &mut 0):
\* every line of the tree gets (line number, depth); other entries stay.
calculate_lineinfo(output, p) ==
    LET w == Walk(p, TopRef, 0)
        here == {w[i][1] : i \in DOMAIN w}
    IN  [r \in DOMAIN output \cup here |->
            IF r \in here
            THEN LET i == CHOOSE i \in DOMAIN w : w[i][1] = r IN <<i, w[i][2]>>
            ELSE output[r]]

\* may_remove_line with `>= 1` in place of `> 1`.
may_remove_line_last(p, k, line_ref) ==
    LET is_premise == lookup_pj(p, line_ref) # None /\ IsPrem(line_ref)
        in_subproof == parent_of_line(p, line_ref) # None
    IN  IF is_premise
        THEN (IF in_subproof THEN FALSE ELSE Len(premises(p, k)) >= 1)
        ELSE TRUE

\* may_remove_line without the in_subproof case: the count of premises of
\* the proof it is called on decides.
may_remove_line_counted(p, k, line_ref) ==
    LET is_premise == lookup_pj(p, line_ref) # None /\ IsPrem(line_ref)
    IN  IF is_premise THEN Len(premises(p, k)) > 1 ELSE TRUE

\* may_remove_line(prf, line_ref), prf being the proof or subproof k.
may_remove_line(p, k, line_ref) ==
    LET is_premise == lookup_pj(p, line_ref) # None /\ IsPrem(line_ref)
        in_subproof == parent_of_line(p, line_ref) # None
    IN  IF is_premise
        THEN (IF in_subproof THEN FALSE ELSE Len(premises(p, k)) > 1)
        ELSE TRUE

\* remove_line_if_allowed without the call of may_remove_line.
remove_line_unguarded(p, d, k, proofref) ==
    [prf |-> remove_line(p, proofref),
     pud |-> [ref_to_line_depth |->
                  Restrict(d.ref_to_line_depth,
                           DOMAIN d.ref_to_line_depth \ {proofref}),
              ref_to_input |->
                  Restrict(d.ref_to_input, DOMAIN d.ref_to_input \ {proofref})]]

\* remove_line_if_allowed(prf, pud, proofref), prf being the proof or
\* subproof k.
remove_line_if_allowed(p, d, k, proofref) ==
    IF may_remove_line(p, k, proofref)
    THEN [prf |-> remove_line(p, proofref),
          pud |-> [ref_to_line_depth |->
                       Restrict(d.ref_to_line_depth,
                                DOMAIN d.ref_to_line_depth \ {proofref}),
                   ref_to_input |->
                       Restrict(d.ref_to_input, DOMAIN d.ref_to_input \ {proofref})]]
    ELSE [prf |-> p, pud |-> d]

\* The refs of S in ascending order (BTreeSet iteration).
RECURSIVE SortedSeq(_)
SortedSeq(S) ==
    IF S = {} THEN <<>>
    ELSE LET m == CHOOSE x \in S : \A y \in S \ {x} : RefLess(x, y)
         IN  <<m>> \o SortedSeq(S \ {m})

\* A toggle that inserts dep and never removes it.
toggle_dep_or_sdep_adding(dep, deps) == SortedSeq(Range(deps) \cup {dep})

toggle_dep_or_sdep(dep, deps) ==
    LET dep_set == Range(deps)
    IN  SortedSeq(IF dep \in dep_set THEN dep_set \ {dep} ELSE dep_set \cup {dep})

\* if ret { calculate_lineinfo(&mut self.pud.ref_to_line_depth, ...) }
UpdateLineInfo(d, p) ==
    [d EXCEPT !.ref_to_line_depth = calculate_lineinfo(d.ref_to_line_depth, p)]

\* A message as `last` keeps it; the fields a kind does not have are blank.
Msg(kind, r) ==
    [kind |-> kind, ref |-> r, what |-> "", after |-> FALSE, relative_to |-> "",
     input |-> "", rule |-> "", dep |-> None]

ProofItemKind == {"Premise", "Just", "Subproof"}

\* LineChanged that empties the line dependencies of the step it edits.
LineChanged_clearing(r, input) ==
    /\ r \in Lines(prf)
    /\ LET e == parse(input)
           p1 == IF e = NoExpr THEN prf
                 ELSE IF IsPrem(r) THEN with_mut_premise(prf, r, e)
                 ELSE with_mut_step(prf, r, [prf.just_map[r] EXCEPT
                                                !.expr = e, !.deps = <<>>])
       IN  /\ prf' = p1
           /\ pud' = UpdateLineInfo(
                  [pud EXCEPT !.ref_to_input = Put(pud.ref_to_input, r, input)], p1)
    /\ UNCHANGED selected_line
    /\ last' = [Msg("LineChanged", r) EXCEPT !.input = input]

\* ProofWidgetMsg::LineChanged(r, input)
LineChanged(r, input) ==
    /\ r \in Lines(prf)
    /\ LET e == parse(input)
           p1 == IF e = NoExpr THEN prf
                 ELSE IF IsPrem(r) THEN with_mut_premise(prf, r, e)
                 ELSE with_mut_step(prf, r, [prf.just_map[r] EXCEPT !.expr = e])
       IN  /\ prf' = p1
           /\ pud' = UpdateLineInfo(
                  [pud EXCEPT !.ref_to_input = Put(pud.ref_to_input, r, input)], p1)
    /\ UNCHANGED selected_line
    /\ last' = [Msg("LineChanged", r) EXCEPT !.input = input]

\* The insertion point of an Insert: the line itself, or the subproof that
\* encloses it (None when there is none).
insertion_point(p, relative_to, orig_ref) ==
    IF relative_to = "Subproof" THEN parent_of_line(p, orig_ref) ELSE orig_ref

\* Whether an Insert returns before changing anything.
InsertRefused(p, what, relative_to, orig_ref) ==
    LET ip == insertion_point(p, relative_to, orig_ref)
    IN  ip = None \/ (what = "Subproof" /\ IsPrem(ip))

\* InsertInto whose new subproof is left without its default step.
InsertInto_stepless(p, what, after, relative_to, orig_ref) ==
    LET parent == parent_of_line(p, orig_ref)
        ip == insertion_point(p, relative_to, orig_ref)
    IN  CASE what = "Premise" ->
               IF IsPrem(ip) THEN add_premise_relative(p, new_empty_premise, ip, after)
               ELSE add_premise(p, TopRef, new_empty_premise)
          [] what = "Just" ->
               IF IsPrem(ip)
               THEN prepend_step(p, IF parent # None THEN parent ELSE TopRef,
                                 new_empty_step)
               ELSE add_step_relative(p, new_empty_step, ip, after)
          [] what = "Subproof" ->
               LET sr == SubRef(p.next_key)
                   a == add_subproof_relative(p, ip, after)
                   b == add_premise(a, sr, new_empty_premise)
               IN  [b EXCEPT !.next_key = b.next_key + 1]

\* InsertInto whose step at a premise always goes to the top-level proof.
InsertInto_top(p, what, after, relative_to, orig_ref) ==
    LET ip == insertion_point(p, relative_to, orig_ref)
    IN  CASE what = "Premise" ->
               IF IsPrem(ip) THEN add_premise_relative(p, new_empty_premise, ip, after)
               ELSE add_premise(p, TopRef, new_empty_premise)
          [] what = "Just" ->
               IF IsPrem(ip)
               THEN prepend_step(p, TopRef, new_empty_step)
               ELSE add_step_relative(p, new_empty_step, ip, after)
          [] what = "Subproof" ->
               LET sr == SubRef(p.next_key)
                   a == add_subproof_relative(p, ip, after)
                   b == add_premise(a, sr, new_empty_premise)
               IN  prepend_step(b, sr, new_empty_step)

\* The tree after an Insert that is carried out.
InsertInto(p, what, after, relative_to, orig_ref) ==
    LET parent == parent_of_line(p, orig_ref)
        ip == insertion_point(p, relative_to, orig_ref)
    IN  CASE what = "Premise" ->
               IF IsPrem(ip) THEN add_premise_relative(p, new_empty_premise, ip, after)
               ELSE add_premise(p, TopRef, new_empty_premise)
          [] what = "Just" ->
               IF IsPrem(ip)
               THEN prepend_step(p, IF parent # None THEN parent ELSE TopRef,
                                 new_empty_step)
               ELSE add_step_relative(p, new_empty_step, ip, after)
          [] what = "Subproof" ->
               LET sr == SubRef(p.next_key)
                   a == add_subproof_relative(p, ip, after)
                   b == add_premise(a, sr, new_empty_premise)
               IN  prepend_step(b, sr, new_empty_step)

\* to_select taken from the first key the Insert hands out.
InsertSelects_first_key(p, what) ==
    CASE what = "Premise" -> PremRef(p.next_key)
      [] what = "Just" -> JustRef(p.next_key)
      [] what = "Subproof" -> PremRef(p.next_key)

\* to_select of an Insert that is carried out.
InsertSelects(p, what) ==
    CASE what = "Premise" -> PremRef(p.next_key)
      [] what = "Just" -> JustRef(p.next_key)
      [] what = "Subproof" -> PremRef(p.next_key + 1)

\* Insert selecting the line it was asked on when it returns early.
Insert_selecting(what, after, relative_to, orig_ref) ==
    /\ orig_ref \in Lines(prf)
    /\ last' = [Msg("Insert", orig_ref) EXCEPT
                   !.what = what, !.after = after, !.relative_to = relative_to]
    /\ IF InsertRefused(prf, what, relative_to, orig_ref)
       THEN selected_line' = orig_ref /\ UNCHANGED <<prf, pud>>
       ELSE /\ prf' = InsertInto(prf, what, after, relative_to, orig_ref)
            /\ selected_line' = InsertSelects(prf, what)
            /\ pud' = UpdateLineInfo(pud, prf')

\* ProofWidgetMsg::LineAction(Insert { what, after, relative_to }, orig_ref)
Insert(what, after, relative_to, orig_ref) ==
    /\ orig_ref \in Lines(prf)
    /\ last' = [Msg("Insert", orig_ref) EXCEPT
                   !.what = what, !.after = after, !.relative_to = relative_to]
    /\ IF InsertRefused(prf, what, relative_to, orig_ref)
       THEN UNCHANGED <<prf, pud, selected_line>>
       ELSE /\ prf' = InsertInto(prf, what, after, relative_to, orig_ref)
            /\ selected_line' = InsertSelects(prf, what)
            /\ pud' = UpdateLineInfo(pud, prf')

\* DeleteFrom whose Subproof case removes the line instead of the subproof
\* that encloses it.
DeleteFrom_line_only(p, d, what, proofref) ==
    LET parent == parent_of_line(p, proofref)
    IN  IF what = "Subproof"
        THEN [prf |-> IF parent # None THEN remove_line(p, proofref) ELSE p,
              pud |-> d]
        ELSE remove_line_if_allowed(p, d, IF parent # None THEN parent ELSE TopRef,
                                    proofref)

\* DeleteFrom that takes the enclosing subproof away whatever `what` is.
DeleteFrom_enclosing(p, d, what, proofref) ==
    LET parent == parent_of_line(p, proofref)
    IN  IF parent # None
        THEN [prf |-> remove_subproof(p, parent), pud |-> d]
        ELSE remove_line_if_allowed(p, d, TopRef, proofref)

\* DeleteFrom whose Subproof case removes the line itself when no subproof
\* encloses it.
DeleteFrom_rootless(p, d, what, proofref) ==
    LET parent == parent_of_line(p, proofref)
    IN  IF what = "Subproof"
        THEN [prf |-> IF parent # None THEN remove_subproof(p, parent)
                      ELSE remove_line(p, proofref),
              pud |-> d]
        ELSE remove_line_if_allowed(p, d, IF parent # None THEN parent ELSE TopRef,
                                    proofref)

\* The tree and the UI data after a Delete.
DeleteFrom(p, d, what, proofref) ==
    LET parent == parent_of_line(p, proofref)
    IN  IF what = "Subproof"
        THEN [prf |-> IF parent # None THEN remove_subproof(p, parent) ELSE p,
              pud |-> d]
        ELSE remove_line_if_allowed(p, d, IF parent # None THEN parent ELSE TopRef,
                                    proofref)

\* Delete that leaves the selection as it is.
Delete_keeping(what, proofref) ==
    /\ proofref \in Lines(prf)
    /\ LET res == DeleteFrom(prf, pud, what, proofref)
       IN  /\ prf' = res.prf
           /\ pud' = UpdateLineInfo(res.pud, res.prf)
    /\ UNCHANGED selected_line
    /\ last' = [Msg("Delete", proofref) EXCEPT !.what = what]

\* ProofWidgetMsg::LineAction(Delete { what }, proofref)
Delete(what, proofref) ==
    /\ proofref \in Lines(prf)
    /\ LET res == DeleteFrom(prf, pud, what, proofref)
       IN  /\ prf' = res.prf
           /\ pud' = UpdateLineInfo(res.pud, res.prf)
    /\ selected_line' = None
    /\ last' = [Msg("Delete", proofref) EXCEPT !.what = what]

\* ProofWidgetMsg::LineAction(SetRule { rule }, proofref)
SetRule(rule, proofref) ==
    /\ proofref \in Lines(prf)
    /\ prf' = IF IsJust(proofref)
              THEN with_mut_step(prf, proofref,
                                 [prf.just_map[proofref] EXCEPT !.rule = rule])
              ELSE prf
    /\ selected_line' = proofref
    /\ pud' = UpdateLineInfo(pud, prf')
    /\ last' = [Msg("SetRule", proofref) EXCEPT !.rule = rule]

\* ProofWidgetMsg::LineAction(Select, proofref)
Select(proofref) ==
    /\ proofref \in Lines(prf)
    /\ selected_line' = proofref
    /\ pud' = UpdateLineInfo(pud, prf)
    /\ UNCHANGED prf
    /\ last' = Msg("Select", proofref)

\* The dependency button without the can_reference_dep test.
DepButtonAlways(p, sel, proofref) ==
    /\ sel # None
    /\ IsJust(sel)
    /\ proofref \in Lines(p) \cup DOMAIN p.sub_map

\* render_line_num_dep_checkbox: the button of line or subproof `proofref`
\* is enabled when the selected line is a step that may cite it.
DepButtonEnabled(p, sel, proofref) ==
    /\ sel # None
    /\ IsJust(sel)
    /\ proofref \in Lines(p) \cup DOMAIN p.sub_map
    /\ can_reference_dep(p, sel, proofref)

\* A toggle that goes to the line dependencies whatever dep is.
ToggleIn_lines(p, dep, proofref) ==
    IF IsJust(proofref)
    THEN LET j == p.just_map[proofref]
         IN  with_mut_step(p, proofref,
                           [j EXCEPT !.deps = toggle_dep_or_sdep(dep, j.deps)])
    ELSE p

\* The tree after ToggleDependency { dep } on proofref: with_mut_step on a
\* justification, nothing on a premise.
ToggleIn(p, dep, proofref) ==
    IF IsJust(proofref)
    THEN LET j == p.just_map[proofref]
         IN  with_mut_step(p, proofref,
                 IF IsSub(dep)
                 THEN [j EXCEPT !.sdeps = toggle_dep_or_sdep(dep, j.sdeps)]
                 ELSE [j EXCEPT !.deps = toggle_dep_or_sdep(dep, j.deps)])
    ELSE p

\* ProofWidgetMsg::LineAction(ToggleDependency { dep }, proofref)
ToggleDependency(dep, proofref) ==
    /\ prf' = ToggleIn(prf, dep, proofref)
    /\ pud' = UpdateLineInfo(pud, prf')
    /\ UNCHANGED selected_line
    /\ last' = [Msg("ToggleDependency", proofref) EXCEPT !.dep = dep]

\* A click on an enabled dependency button.
ClickDep(dep) ==
    /\ DepButtonEnabled(prf, selected_line, dep)
    /\ ToggleDependency(dep, selected_line)

\* initialize_inputs: the text of a line's expression.
expr_text(e) ==
    CASE e = Var("Q") -> "Q"
      [] e = Not(Var("Q")) -> "~Q"
      [] e = Not(Not(Var("Q"))) -> "~~Q"
      [] OTHER -> ""

\* ProofUiData::from_proof
from_proof(p) ==
    [ref_to_line_depth |-> calculate_lineinfo(<<>>, p),
     ref_to_input |-> [r \in Lines(p) |->
                          expr_text(IF IsPrem(r) THEN p.prem_map[r]
                                    ELSE p.just_map[r].expr)]]

\* new_empty_proof with a default step after the default premise.
new_empty_proof_stepped ==
    LET proof == prepend_step(add_premise(NewProof, TopRef, new_empty_premise),
                              TopRef, new_empty_step)
        d == from_proof(proof)
    IN  [prf |-> proof,
         pud |-> [d EXCEPT !.ref_to_input = [r \in DOMAIN d.ref_to_input |-> ""]]]

\* new_empty_proof(): one default premise, every input "".
new_empty_proof ==
    LET proof == add_premise(NewProof, TopRef, new_empty_premise)
        d == from_proof(proof)
    IN  [prf |-> proof,
         pud |-> [d EXCEPT !.ref_to_input = [r \in DOMAIN d.ref_to_input |-> ""]]]

\* A proof file the widget is opened on (props.data), as
\* ProofUiData::from_proof numbers it:
\*    1 | Q                      premise 1
\*      |----
\*    2 | ~~Q                    step 2      DOUBLE_NEGATION  1
\*      | 3 | ~Q                 subproof 3, premise 4
\*      |   |----
\*      |   | 4 | Q              subproof 5, premise 6
\*      |   |   |----
\*      |   |   | 5  ~~Q         step 7      DOUBLE_NEGATION  2, 4
\*    6 | Q                      step 8      EmptyRule  2, subproof 3
OpenedProof ==
    LET prems == (PremRef(1) :> Var("Q")) @@ (PremRef(4) :> Not(Var("Q")))
                 @@ (PremRef(6) :> Var("Q"))
        justs == (JustRef(2) :> Justification(Not(Not(Var("Q"))), "DOUBLE_NEGATION",
                                              <<PremRef(1)>>, <<>>))
                 @@ (JustRef(7) :> Justification(Not(Not(Var("Q"))), "DOUBLE_NEGATION",
                                                 <<PremRef(4), JustRef(2)>>, <<>>))
                 @@ (JustRef(8) :> Justification(Var("Q"), "EmptyRule",
                                                 <<JustRef(2)>>, <<SubRef(3)>>))
        subs == (SubRef(3) :> [premise_list |-> <<PremRef(4)>>,
                               line_list |-> <<SubRef(5)>>])
                @@ (SubRef(5) :> [premise_list |-> <<PremRef(6)>>,
                                  line_list |-> <<JustRef(7)>>])
    IN  [prem_map |-> prems, just_map |-> justs, sub_map |-> subs,
         top |-> [premise_list |-> <<PremRef(1)>>,
                  line_list |-> <<JustRef(2), SubRef(3), JustRef(8)>>],
         next_key |-> 9]

\* A shorter proof file:
\*    1 | Q                      premise 1
\*      |----
\*    2 | ~~Q                    step 2      DOUBLE_NEGATION  1
\*      | 3 | ~Q                 subproof 3, premise 4
\*      |   |----
\*      |   | 4  Q               step 5      EmptyRule  2
ShortProof ==
    [prem_map |-> (PremRef(1) :> Var("Q")) @@ (PremRef(4) :> Not(Var("Q"))),
     just_map |-> (JustRef(2) :> Justification(Not(Not(Var("Q"))), "DOUBLE_NEGATION",
                                               <<PremRef(1)>>, <<>>))
                  @@ (JustRef(5) :> Justification(Var("Q"), "EmptyRule",
                                                  <<JustRef(2)>>, <<>>)),
     sub_map |-> (SubRef(3) :> [premise_list |-> <<PremRef(4)>>,
                                line_list |-> <<JustRef(5)>>]),
     top |-> [premise_list |-> <<PremRef(1)>>, line_list |-> <<JustRef(2), SubRef(3)>>],
     next_key |-> 6]

\* xml_interop::proof_from_xml(data), on the files the widget is opened on.
proof_from_xml(data) == IF data = "short" THEN ShortProof ELSE OpenedProof

\* create that keeps the UI data of the empty proof for an opened file.
create_empty_pud(data) ==
    IF data = "none" THEN new_empty_proof
    ELSE [prf |-> proof_from_xml(data), pud |-> new_empty_proof.pud]

\* ProofWidget::create: the proof of props.data, or the empty proof.
create(data) ==
    IF data = "none" THEN new_empty_proof
    ELSE [prf |-> proof_from_xml(data), pud |-> from_proof(proof_from_xml(data))]

(***************************************************************************)
(* The rewrite-rule catalog: aris/src/equivs.rs.  A rule is the ordered    *)
(* list of its clauses <<lhs, rhs>>, each pattern the expression its text  *)
(* parses to (^|^ is Taut, _|_ is Contra, ~ binds tightest).               *)
(***************************************************************************)
P == Var("P")
Q == Var("Q")
R == Var("R")
S == Var("S")
phi == Var("phi")
psi == Var("psi")
lambda == Var("lambda")

\* DOUBLE_NEGATION with one negation only.
DOUBLE_NEGATION_single == << <<Not(P), P>> >>

DOUBLE_NEGATION == << <<Not(Not(P)), P>> >>

DISTRIBUTION ==
    << <<Or(And(P, Q), And(P, R)), And(P, Or(Q, R))>>,
       <<And(Or(P, Q), Or(P, R)), Or(P, And(Q, R))>> >>

IDENTITY == << <<And(phi, Taut), phi>>, <<Or(phi, Contra), phi>> >>

ANNIHILATION == << <<And(phi, Contra), Contra>>, <<Or(phi, Taut), Taut>> >>

INVERSE == << <<Not(Taut), Contra>>, <<Not(Contra), Taut>> >>

CONDITIONAL_ABSORPTION ==
    << <<And(phi, Impl(Not(phi), psi)), phi>>,
       <<And(psi, Impl(phi, psi)), psi>> >>

\* CONDITIONAL_COMPLEMENT with two names in place of the repeated one.
CONDITIONAL_COMPLEMENT_distinct == << <<Impl(phi, psi), Taut>> >>

CONDITIONAL_COMPLEMENT == << <<Impl(phi, phi), Taut>> >>

CONDITIONAL_IDENTITY == << <<Impl(phi, Contra), Not(phi)>>, <<Impl(Taut, phi), phi>> >>

CONDITIONAL_ANNIHILATION == << <<Impl(phi, Taut), Taut>>, <<Impl(Contra, phi), Taut>> >>

\* The first clause of CONDITIONAL_IMPLICATION without the negation.
CONDITIONAL_IMPLICATION_unnegated ==
    << <<Impl(phi, psi), Or(phi, psi)>>,
       <<Not(Impl(phi, psi)), And(phi, Not(psi))>> >>

CONDITIONAL_IMPLICATION ==
    << <<Impl(phi, psi), Or(Not(phi), psi)>>,
       <<Not(Impl(phi, psi)), And(phi, Not(psi))>> >>

\* CONDITIONAL_CONTRAPOSITION without the exchange of phi and psi.
CONDITIONAL_CONTRAPOSITION_unswapped == << <<Impl(Not(phi), Not(psi)), Impl(phi, psi)>> >>

CONDITIONAL_CONTRAPOSITION == << <<Impl(Not(phi), Not(psi)), Impl(psi, phi)>> >>

CONDITIONAL_EXPORTATION ==
    << <<Impl(phi, Impl(psi, lambda)), Impl(And(phi, psi), lambda)>> >>

CONDITIONAL_DISTRIBUTION ==
    << <<Impl(phi, And(psi, lambda)), And(Impl(phi, psi), Impl(phi, lambda))>>,
       <<Impl(Or(phi, psi), lambda), And(Impl(phi, lambda), Impl(psi, lambda))>>,
       <<Impl(phi, Or(psi, lambda)), Or(Impl(phi, psi), Impl(phi, lambda))>>,
       <<Impl(And(phi, psi), lambda), Or(Impl(phi, lambda), Impl(psi, lambda))>> >>

CONDITIONAL_REDUCTION ==
    << <<And(phi, Impl(phi, psi)), And(phi, psi)>>,
       <<And(Not(psi), Impl(phi, psi)), And(Not(psi), Not(phi))>> >>

KNIGHTS_AND_KNAVES ==
    << <<Bicon(phi, And(phi, psi)), Impl(phi, psi)>>,
       <<Bicon(phi, Or(phi, psi)), Impl(psi, phi)>> >>

CONDITIONAL_IDEMPOTENCE ==
    << <<Impl(phi, Not(phi)), Not(phi)>>, <<Impl(Not(phi), phi), phi>> >>

BICONDITIONAL_EQUIVALENCE ==
    << <<And(Impl(phi, psi), Impl(psi, phi)), Bicon(phi, psi)>>,
       <<Or(And(phi, psi), And(Not(phi), Not(psi))), Bicon(phi, psi)>> >>

BICONDITIONAL_COMMUTATION == << <<Bicon(phi, psi), Bicon(psi, phi)>> >>

BICONDITIONAL_ASSOCIATION ==
    << <<Bicon(phi, Bicon(psi, lambda)), Bicon(Bicon(phi, psi), lambda)>> >>

BICONDITIONAL_REDUCTION ==
    << <<And(phi, Bicon(phi, psi)), And(phi, psi)>>,
       <<And(Not(phi), Bicon(phi, psi)), And(Not(phi), Not(psi))>> >>

BICONDITIONAL_COMPLEMENT ==
    << <<Bicon(phi, phi), Taut>>, <<Bicon(phi, Not(phi)), Contra>> >>

BICONDITIONAL_IDENTITY ==
    << <<Bicon(phi, Contra), Not(phi)>>, <<Bicon(phi, Taut), phi>> >>

BICONDITIONAL_NEGATION ==
    << <<Bicon(Not(phi), psi), Not(Bicon(phi, psi))>>,
       <<Bicon(phi, Not(psi)), Not(Bicon(phi, psi))>> >>

\* The clause of BICONDITIONAL_SUBSTITUTION with S(phi) on both sides.
BICONDITIONAL_SUBSTITUTION_unsubstituted ==
    << <<And(Bicon(phi, psi), Apply("S", phi)), And(Bicon(phi, psi), Apply("S", phi))>> >>

BICONDITIONAL_SUBSTITUTION ==
    << <<And(Bicon(phi, psi), Apply("S", phi)), And(Bicon(phi, psi), Apply("S", psi))>> >>

\* The rules below are not in the list of the truth-table test.
CONJUNCTION == << <<And(phi, Taut), phi>>, <<And(phi, Contra), Contra>> >>

DISJUNCTION == << <<Or(phi, Contra), phi>>, <<Or(phi, Taut), Taut>> >>

NEGATION == << <<Not(Taut), Contra>>, <<Not(Contra), Taut>> >>

BICOND_REDUCTION == << <<Bicon(phi, Contra), Not(phi)>>, <<Bicon(phi, Taut), phi>> >>

\* COND_REDUCTION with phi in place of ~phi in its third clause.
COND_REDUCTION_unnegated ==
    << <<Impl(phi, Taut), Taut>>, <<Impl(Contra, phi), Taut>>,
       <<Impl(phi, Contra), phi>>, <<Impl(Taut, phi), phi>> >>

COND_REDUCTION ==
    << <<Impl(phi, Taut), Taut>>, <<Impl(Contra, phi), Taut>>,
       <<Impl(phi, Contra), Not(phi)>>, <<Impl(Taut, phi), phi>> >>

(***************************************************************************)
(* Matching, rule application and verify_line (spec sections 4.1, 4.2,     *)
(* 4.5 and 7).                                                             *)
(***************************************************************************)
\* The clauses of the rule a step cites by name; none for a name that is
\* no rule of the catalog (EmptyRule).
RuleNamed(name) ==
    CASE name = "DOUBLE_NEGATION" -> DOUBLE_NEGATION
      [] name = "DISTRIBUTION" -> DISTRIBUTION
      [] name = "IDENTITY" -> IDENTITY
      [] name = "ANNIHILATION" -> ANNIHILATION
      [] name = "INVERSE" -> INVERSE
      [] name = "CONDITIONAL_ABSORPTION" -> CONDITIONAL_ABSORPTION
      [] name = "CONDITIONAL_ANNIHILATION" -> CONDITIONAL_ANNIHILATION
      [] name = "CONDITIONAL_IMPLICATION" -> CONDITIONAL_IMPLICATION
      [] name = "CONDITIONAL_CONTRAPOSITION" -> CONDITIONAL_CONTRAPOSITION
      [] name = "CONDITIONAL_EXPORTATION" -> CONDITIONAL_EXPORTATION
      [] name = "CONDITIONAL_COMPLEMENT" -> CONDITIONAL_COMPLEMENT
      [] name = "CONDITIONAL_IDENTITY" -> CONDITIONAL_IDENTITY
      [] name = "CONDITIONAL_DISTRIBUTION" -> CONDITIONAL_DISTRIBUTION
      [] name = "CONDITIONAL_REDUCTION" -> CONDITIONAL_REDUCTION
      [] name = "KNIGHTS_AND_KNAVES" -> KNIGHTS_AND_KNAVES
      [] name = "CONDITIONAL_IDEMPOTENCE" -> CONDITIONAL_IDEMPOTENCE
      [] name = "BICONDITIONAL_ASSOCIATION" -> BICONDITIONAL_ASSOCIATION
      [] name = "BICONDITIONAL_COMMUTATION" -> BICONDITIONAL_COMMUTATION
      [] name = "BICONDITIONAL_REDUCTION" -> BICONDITIONAL_REDUCTION
      [] name = "BICONDITIONAL_COMPLEMENT" -> BICONDITIONAL_COMPLEMENT
      [] name = "BICONDITIONAL_IDENTITY" -> BICONDITIONAL_IDENTITY
      [] name = "BICONDITIONAL_EQUIVALENCE" -> BICONDITIONAL_EQUIVALENCE
      [] name = "BICONDITIONAL_NEGATION" -> BICONDITIONAL_NEGATION
      [] name = "BICONDITIONAL_SUBSTITUTION" -> BICONDITIONAL_SUBSTITUTION
      [] OTHER -> <<>>

\* The place of the argument in a substitution context.
Hole == Expr("hole", "", <<>>)

\* e with every occurrence of `what` replaced by `by`.
RECURSIVE Replace(_, _, _)
Replace(e, what, by) ==
    IF e = what THEN by
    ELSE [e EXCEPT !.args = [i \in DOMAIN e.args |-> Replace(e.args[i], what, by)]]

NoMatch == [ok |-> FALSE, b |-> <<>>]

\* Bind name to value, or require the value it is bound to already.
\* Bind refusing a name that is bound already, whatever its value.
Bind_fresh(m, name, value) ==
    IF name \in DOMAIN m.b THEN NoMatch
    ELSE [ok |-> TRUE, b |-> Put(m.b, name, value)]

Bind(m, name, value) ==
    IF name \in DOMAIN m.b
    THEN (IF m.b[name] = value THEN m ELSE NoMatch)
    ELSE [ok |-> TRUE, b |-> Put(m.b, name, value)]

\* The binding of an applied name S: the substitution context, and the
\* value that was abstracted out of the candidate to obtain it.
Context(ctx, abstracted) == Expr("context", "", <<ctx, abstracted>>)

\* cand is the context applied: every hole holds the argument y, or the
\* value the hole was abstracted from (an occurrence that the other use
\* of S leaves as it is).
RECURSIVE FillsTo(_, _, _, _)
FillsTo(ctx, cand, abstracted, y) ==
    IF ctx = Hole THEN cand \in {abstracted, y}
    ELSE /\ ctx.op = cand.op
         /\ ctx.name = cand.name
         /\ Len(ctx.args) = Len(cand.args)
         /\ \A i \in DOMAIN ctx.args : FillsTo(ctx.args[i], cand.args[i], abstracted, y)

\* match(pattern, candidate), continuing the bindings m: every name of a
\* pattern is a metavariable; the first S(x) binds S to the candidate
\* with the value of x abstracted out of it, a later S(y) requires the
\* candidate to be that context applied to the value of y.
RECURSIVE match_in(_, _, _), match_args(_, _, _)
match_args(pats, cands, m) ==
    IF pats = <<>> THEN m
    ELSE match_args(Tail(pats), Tail(cands), match_in(Head(pats), Head(cands), m))
match_in(pat, cand, m) ==
    IF ~m.ok THEN m
    ELSE CASE pat.op = "var" -> Bind(m, pat.name, cand)
           [] pat.op = "apply" ->
                LET arg == pat.args[1]
                IN  IF arg.op = "var" /\ arg.name \in DOMAIN m.b
                    THEN LET y == m.b[arg.name]
                         IN  IF pat.name \in DOMAIN m.b
                             THEN (IF FillsTo(m.b[pat.name].args[1], cand,
                                              m.b[pat.name].args[2], y)
                                   THEN m ELSE NoMatch)
                             ELSE Bind(m, pat.name,
                                       Context(Replace(cand, y, Hole), y))
                    ELSE NoMatch
           [] OTHER ->
                IF pat.op = cand.op /\ Len(pat.args) = Len(cand.args)
                THEN match_args(pat.args, cand.args, m)
                ELSE NoMatch

match(pat, cand) == match_in(pat, cand, [ok |-> TRUE, b |-> <<>>])

\* instantiate: the pattern with its metavariables replaced by their
\* bindings, S(x) by the context of S applied to the instance of x; a
\* name without a binding stays.
RECURSIVE instantiate(_, _)
instantiate(pat, b) ==
    CASE pat.op = "var" -> IF pat.name \in DOMAIN b THEN b[pat.name] ELSE pat
      [] pat.op = "apply" ->
           IF pat.name \in DOMAIN b
           THEN Replace(b[pat.name].args[1], Hole, instantiate(pat.args[1], b))
           ELSE pat
      [] OTHER -> [pat EXCEPT !.args = [i \in DOMAIN pat.args |->
                                           instantiate(pat.args[i], b)]]

\* One direction of one clause: `from` matches the cited expression, and
\* the conclusion is `to` under the same bindings (a metavariable that
\* `from` does not bind is bound by the conclusion).
Licenses(from, to, cited, conclusion) ==
    match_in(to, conclusion, match(from, cited)).ok

\* The expressions the cited dependencies give the patterns: the one
\* dependency, or for two (a set: in either order) the conjunction whose
\* sides they feed.
CitedExprs(deps) ==
    IF Len(deps) = 2 THEN {And(deps[1], deps[2]), And(deps[2], deps[1])}
    ELSE {deps[1]}

\* applies reading every clause from its left side to its right side only.
applies_forward(rule, conclusion, deps) ==
    /\ Len(deps) \in {1, 2}
    /\ \E c \in DOMAIN rule, cited \in CitedExprs(deps) :
          Licenses(rule[c][1], rule[c][2], cited, conclusion)

\* applies(rule, cited_conclusion, cited_premise_exprs): either direction
\* of any clause.
applies(rule, conclusion, deps) ==
    /\ Len(deps) \in {1, 2}
    /\ \E c \in DOMAIN rule, cited \in CitedExprs(deps) :
          \/ Licenses(rule[c][1], rule[c][2], cited, conclusion)
          \/ Licenses(rule[c][2], rule[c][1], cited, conclusion)

\* The expression of a premise or step.
ExprOf(p, r) == IF IsPrem(r) THEN p.prem_map[r] ELSE p.just_map[r].expr

\* verify_line(ref): Ok for a premise; for a step BadDependency when a
\* cited line does not resolve or is not visible, WrongRule when the cited
\* rule does not license the conclusion from the cited expressions.
\* verify_line accepting the premises of the top-level proof only.
verify_line_top_premises(p, r) ==
    IF IsPrem(r) THEN (IF ContainerOf(p, r) = TopRef THEN "Ok" ELSE "WrongRule")
    ELSE "WrongRule"

verify_line(p, r) ==
    IF IsPrem(r) THEN "Ok"
    ELSE LET j == p.just_map[r]
         IN  IF \E d \in Range(j.deps) :
                   lookup_pj(p, d) = None \/ ~can_reference_dep(p, r, d)
             THEN "BadDependency"
             ELSE IF applies(RuleNamed(j.rule), j.expr,
                             [i \in DOMAIN j.deps |-> ExprOf(p, j.deps[i])])
                  THEN "Ok"
                  ELSE "WrongRule"

(***************************************************************************)
(* The truth-table test of the catalog: equivs.rs, mod tests.              *)
(***************************************************************************)
\* let rules: Vec<&RewriteRule> = vec![...]
rules ==
    <<DOUBLE_NEGATION, DISTRIBUTION, IDENTITY, ANNIHILATION, INVERSE,
      CONDITIONAL_ABSORPTION, CONDITIONAL_ANNIHILATION, CONDITIONAL_IMPLICATION,
      CONDITIONAL_CONTRAPOSITION, CONDITIONAL_EXPORTATION, CONDITIONAL_COMPLEMENT,
      CONDITIONAL_IDENTITY, CONDITIONAL_DISTRIBUTION, CONDITIONAL_REDUCTION,
      KNIGHTS_AND_KNAVES, CONDITIONAL_IDEMPOTENCE, BICONDITIONAL_ASSOCIATION,
      BICONDITIONAL_COMMUTATION, BICONDITIONAL_REDUCTION, BICONDITIONAL_COMPLEMENT,
      BICONDITIONAL_IDENTITY, BICONDITIONAL_EQUIVALENCE, BICONDITIONAL_NEGATION,
      BICONDITIONAL_SUBSTITUTION>>

\* The rules of the test's list, then the rules it does not list.
catalog ==
    rules \o <<CONJUNCTION, DISJUNCTION, NEGATION, BICOND_REDUCTION, COND_REDUCTION>>

\* 2usize.pow(n)
RECURSIVE Pow2(_)
Pow2(n) == IF n = 0 THEN 1 ELSE 2 * Pow2(n - 1)

\* The names of the catalog in the order of String's Ord (fvs.sort()).
NameOrder == <<"P", "Q", "R", "S", "lambda", "phi", "psi">>

RECURSIVE SeqUnion(_)
SeqUnion(sets) == IF sets = <<>> THEN {} ELSE Head(sets) \cup SeqUnion(Tail(sets))

\* expr::free_vars: the names of an expression, the applied ones included.
RECURSIVE free_vars(_)
free_vars(e) ==
    (IF e.op \in {"var", "apply"} THEN {e.name} ELSE {})
    \cup SeqUnion([i \in DOMAIN e.args |-> free_vars(e.args[i])])

\* An inference that enters every name as a variable, applied or not.
infer_arities_variables(e, arities) ==
    [n \in DOMAIN arities \cup free_vars(e) |->
        IF n \in DOMAIN arities THEN arities[n] ELSE 0]

\* Expr::infer_arities(&mut arities): a name is entered with the number
\* of arguments it is applied to (none for a variable).
RECURSIVE infer_arities(_, _), infer_arities_args(_, _)
infer_arities_args(args, arities) ==
    IF args = <<>> THEN arities
    ELSE infer_arities_args(Tail(args), infer_arities(Head(args), arities))
infer_arities(e, arities) ==
    LET seen == IF e.op \in {"var", "apply"}
                THEN Put(arities, e.name,
                         IF e.name \in DOMAIN arities /\ arities[e.name] > Len(e.args)
                         THEN arities[e.name] ELSE Len(e.args))
                ELSE arities
    IN  infer_arities_args(e.args, seen)

\* A table whose slot i (from 0) is bit i + 1 of x.
for_each_truthtable_shifted(n, x) == [i \in 1..n |-> (x \div Pow2(i)) % 2 = 1]

\* The table for_each_truthtable hands to f at counter x: slot i (from 0)
\* is bit i of x.
for_each_truthtable(n, x) == [i \in 1..n |-> (x \div Pow2(i - 1)) % 2 = 1]

\* An environment whose running index moves on by one slot for each name.
RECURSIVE env_of_single(_, _, _, _)
env_of_single(fvs, arities, table, i) ==
    IF fvs = <<>> THEN <<>>
    ELSE LET fv == Head(fvs)
             n == Pow2(arities[fv])
         IN  Put(env_of_single(Tail(fvs), arities, table, i + 1),
                 fv, SubSeq(table, i + 1, i + n))

\* The environment of one row: each name of fvs, in order, gets the next
\* 2^arity slots of the table, table[i..i + n] (i counted from 0).
RECURSIVE env_of(_, _, _, _)
env_of(fvs, arities, table, i) ==
    IF fvs = <<>> THEN <<>>
    ELSE LET fv == Head(fvs)
             n == Pow2(arities[fv])
         IN  Put(env_of(Tail(fvs), arities, table, i + n),
                 fv, SubSeq(table, i + 1, i + n))

\* Expr::eval(&env): a variable reads slot 0 of its name, an applied name
\* the slot its arguments' values index (argument k is bit k).
RECURSIVE eval(_, _), ArgIndex(_, _, _)
ArgIndex(args, env, k) ==
    IF args = <<>> THEN 0
    ELSE (IF eval(Head(args), env) THEN Pow2(k) ELSE 0) + ArgIndex(Tail(args), env, k + 1)
eval(e, env) ==
    CASE e.op = "taut" -> TRUE
      [] e.op = "contra" -> FALSE
      [] e.op = "var" -> env[e.name][1]
      [] e.op = "apply" -> env[e.name][ArgIndex(e.args, env, 0) + 1]
      [] e.op = "not" -> ~eval(e.args[1], env)
      [] e.op = "and" -> eval(e.args[1], env) /\ eval(e.args[2], env)
      [] e.op = "or" -> eval(e.args[1], env) \/ eval(e.args[2], env)
      [] e.op = "impl" -> eval(e.args[1], env) => eval(e.args[2], env)
      [] e.op = "bicon" -> eval(e.args[1], env) <=> eval(e.args[2], env)

\* What the body of `for (lhs, rhs) in rule.reductions.iter()` computes
\* before the rows: fvs, arities and total_arity of clause c of rule r.
Clause(r, c) ==
    LET lhs == catalog[r][c][1]
        rhs == catalog[r][c][2]
        names == free_vars(lhs) \cup free_vars(rhs)
        arities == infer_arities(rhs, infer_arities(lhs, <<>>))
    IN  [lhs |-> lhs, rhs |-> rhs,
         fvs |-> SelectSeq(NameOrder, LAMBDA n : n \in names),
         arities |-> arities,
         total_arity |-> LET RECURSIVE Sum(_)
                             Sum(ns) == IF ns = {} THEN 0
                                        ELSE LET n == CHOOSE n \in ns : TRUE
                                             IN  Pow2(arities[n]) + Sum(ns \ {n})
                         IN  Sum(DOMAIN arities)]

\* The test before its first row, and while the editor runs.
IdleOracle ==
    [rule |-> 1, clause |-> 1, x |-> 0, lhs |-> FALSE, rhs |-> FALSE,
     status |-> "idle", n_rules |-> Len(rules)]

\* The closure for_each_truthtable calls at counter x:
\* assert_eq!(lhs.eval(&env), rhs.eval(&env)); a failed assertion ends the
\* test.
TruthTableRow ==
    /\ oracle.status = "running"
    /\ LET cl == Clause(oracle.rule, oracle.clause)
           table == for_each_truthtable(cl.total_arity, oracle.x)
           env == env_of(cl.fvs, cl.arities, table, 0)
           l == eval(cl.lhs, env)
           r == eval(cl.rhs, env)
       IN  /\ oracle.x < Pow2(cl.total_arity)
           /\ oracle' = [oracle EXCEPT !.lhs = l, !.rhs = r,
                                       !.x = IF l = r THEN @ + 1 ELSE @,
                                       !.status = IF l = r THEN @ ELSE "panicked"]
    /\ UNCHANGED <<prf, pud, selected_line, last, handled, check, view>>

\* A loop over the clauses that starts the same clause again.
NextClause_repeating ==
    /\ oracle.status = "running"
    /\ oracle.x = Pow2(Clause(oracle.rule, oracle.clause).total_arity)
    /\ oracle.clause < Len(catalog[oracle.rule])
    /\ oracle' = [oracle EXCEPT !.x = 0]
    /\ UNCHANGED <<prf, pud, selected_line, last, handled, check, view>>

\* The rows of a clause are done: the next clause of the rule.
NextClause ==
    /\ oracle.status = "running"
    /\ oracle.x = Pow2(Clause(oracle.rule, oracle.clause).total_arity)
    /\ oracle.clause < Len(catalog[oracle.rule])
    /\ oracle' = [oracle EXCEPT !.clause = @ + 1, !.x = 0]
    /\ UNCHANGED <<prf, pud, selected_line, last, handled, check, view>>

\* The clauses of a rule are done: the next rule of the list.
NextRule ==
    /\ oracle.status = "running"
    /\ oracle.x = Pow2(Clause(oracle.rule, oracle.clause).total_arity)
    /\ oracle.clause = Len(catalog[oracle.rule])
    /\ oracle.rule < oracle.n_rules
    /\ oracle' = [oracle EXCEPT !.rule = @ + 1, !.clause = 1, !.x = 0]
    /\ UNCHANGED <<prf, pud, selected_line, last, handled, check, view>>

\* The last rule is done: the test passes.
TestPasses ==
    /\ oracle.status = "running"
    /\ oracle.x = Pow2(Clause(oracle.rule, oracle.clause).total_arity)
    /\ oracle.clause = Len(catalog[oracle.rule])
    /\ oracle.rule = oracle.n_rules
    /\ oracle' = [oracle EXCEPT !.status = "passed"]
    /\ UNCHANGED <<prf, pud, selected_line, last, handled, check, view>>

\* render_line_feedback verifying every line that has an input text.
render_line_feedback_unparsed(p, u, proofref, is_subproof) ==
    IF proofref \notin DOMAIN u.ref_to_input \/ u.ref_to_input[proofref] = ""
    THEN [span |-> "", verdict |-> ""]
    ELSE LET verdict == verify_line(p, proofref)
         IN  [span |-> IF verdict # "Ok" THEN "Error"
                       ELSE IF ~IsPrem(proofref) THEN "Correct"
                       ELSE IF is_subproof THEN "Assumption" ELSE "Premise",
              verdict |-> verdict]

\* render_line_feedback(proofref, is_subproof): nothing for a line without
\* input text, "Parse error" for a text that does not parse, and else the
\* verdict of verify_line, shown as Premise or Assumption, Correct, or
\* Error.
render_line_feedback(p, u, proofref, is_subproof) ==
    IF proofref \notin DOMAIN u.ref_to_input \/ u.ref_to_input[proofref] = ""
    THEN [span |-> "", verdict |-> ""]
    ELSE IF parse(u.ref_to_input[proofref]) = NoExpr
         THEN [span |-> "Parse error", verdict |-> ""]
         ELSE LET verdict == verify_line(p, proofref)
              IN  [span |-> IF verdict # "Ok" THEN "Error"
                            ELSE IF ~IsPrem(proofref) THEN "Correct"
                            ELSE IF is_subproof THEN "Assumption" ELSE "Premise",
                   verdict |-> verdict]

\* render_proof: the feedback of every line of the tree; its depth, that
\* calculate_lineinfo counts the same way, is > 0 in a subproof.
render_proof(p, u) ==
    [r \in Lines(p) |-> render_line_feedback(p, u, r, u.ref_to_line_depth[r][2] > 0)]

\* No verify_line call yet.
IdleCheck == [ref |-> None, verdict |-> ""]

\* One call of verify_line on line r of the tree.
VerifyLine(r) ==
    /\ check.verdict = ""
    /\ check' = [ref |-> r, verdict |-> verify_line(prf, r)]
    /\ UNCHANGED <<prf, pud, selected_line, last, handled, oracle, view>>

Init ==
    /\ \E data \in {"none", "file"} :
          /\ prf = create(data).prf
          /\ pud = create(data).pud
    /\ selected_line = None
    /\ last = Msg("Nop", None)
    /\ handled = 0
    /\ oracle = IdleOracle
    /\ check = IdleCheck
    /\ view = <<>>

\* view rendered from the tree as it was before the update.
Render_before == view' = render_proof(prf, pud')

\* view, after an update that asks for it (an update that does not has
\* left the proof and the inputs as they were).
Render == view' = render_proof(prf', pud')

\* One more message, within the bound of the model.
Handle ==
    /\ handled < MaxMsgs
    /\ handled' = handled + 1
    /\ UNCHANGED <<oracle, check, view>>

Next ==
    \/ Handle /\ \E r \in Lines(prf), input \in Inputs : LineChanged(r, input)
    \/ Handle /\ \E r \in Lines(prf), what \in ProofItemKind, after \in BOOLEAN,
                    relative_to \in ProofItemKind :
                       Insert(what, after, relative_to, r)
    \/ Handle /\ \E r \in Lines(prf), what \in ProofItemKind : Delete(what, r)
    \/ Handle /\ \E r \in Lines(prf), rule \in MenuRules : SetRule(rule, r)
    \/ Handle /\ \E r \in Lines(prf) : Select(r)
    \/ Handle /\ \E dep \in Lines(prf) \cup DOMAIN prf.sub_map : ClickDep(dep)

Spec == Init /\ [][Next]_vars

(***************************************************************************)
(* ToggleSpec: the widget taking ToggleDependency messages for any line    *)
(* of the proof and any dependency, whatever the buttons offer.            *)
(***************************************************************************)
ToggleNext ==
    Handle /\ \E dep \in Lines(prf) \cup DOMAIN prf.sub_map, r \in Lines(prf) :
                 ToggleDependency(dep, r)

ToggleSpec == Init /\ [][ToggleNext]_vars

\* The widget with its view: created on no file or on the shorter one,
\* and rendered after every update.
ViewInit ==
    /\ \E data \in {"none", "short"} :
          /\ prf = create(data).prf
          /\ pud = create(data).pud
    /\ selected_line = None
    /\ last = Msg("Nop", None)
    /\ handled = 0
    /\ oracle = IdleOracle
    /\ check = IdleCheck
    /\ view = render_proof(prf, pud)

\* One more message, within the bound of the rendered widget.
Updated ==
    /\ handled < MaxViewMsgs
    /\ handled' = handled + 1
    /\ UNCHANGED <<oracle, check>>

ViewNext ==
    \/ Updated /\ (\E r \in Lines(prf), input \in Inputs : LineChanged(r, input))
              /\ Render
    \/ Updated /\ (\E r \in Lines(prf), what \in ProofItemKind, after \in BOOLEAN,
                     relative_to \in ProofItemKind :
                        Insert(what, after, relative_to, r))
              /\ Render
    \/ Updated /\ (\E r \in Lines(prf), what \in ProofItemKind : Delete(what, r))
              /\ Render
    \/ Updated /\ (\E r \in Lines(prf), rule \in MenuRules : SetRule(rule, r))
              /\ Render
    \/ Updated /\ (\E r \in Lines(prf) : Select(r))
              /\ Render
    \/ Updated /\ (\E dep \in Lines(prf) \cup DOMAIN prf.sub_map : ClickDep(dep))
              /\ Render

ViewSpec == ViewInit /\ [][ViewNext]_vars

(***************************************************************************)
(* OracleSpec: bruteforce_equivalence_truthtables, row by row, on the      *)
(* rules of its list or on every rule of the catalog.                      *)
(***************************************************************************)
OracleInit ==
    /\ prf = new_empty_proof.prf
    /\ pud = new_empty_proof.pud
    /\ selected_line = None
    /\ last = Msg("Nop", None)
    /\ handled = 0
    /\ \E n \in {Len(rules), Len(catalog)} :
          oracle = [IdleOracle EXCEPT !.status = "running", !.n_rules = n]
    /\ check = IdleCheck
    /\ view = <<>>

OracleNext == TruthTableRow \/ NextClause \/ NextRule \/ TestPasses

OracleSpec == OracleInit /\ [][OracleNext]_vars

(***************************************************************************)
(* VerifySpec: verify_line on a proof of one premise and one step that     *)
(* cites it.                                                               *)
(***************************************************************************)
\* The rules and the expressions the proofs of VerifySpec are made of.
VerifyRules == {"DOUBLE_NEGATION", "CONDITIONAL_IMPLICATION"}

VerifyExprs ==
    {Q, Not(Q), Not(Not(Q)), Not(Not(Not(Q))),
     Impl(P, Q), Or(Not(P), Q), Or(P, Q), Not(Impl(P, Q)), And(P, Not(Q))}

\*    1 | dep
\*      |----
\*    2 | conclusion             rule  1
OneStepProof(dep, rule, conclusion) ==
    LET a == add_premise(NewProof, TopRef, dep)
    IN  prepend_step(a, TopRef, Justification(conclusion, rule, <<PremRef(1)>>, <<>>))

\*    1 | dep1
\*    2 | dep2
\*      |----
\*    3 | conclusion             rule  1, 2   (or 2, 1)
TwoDepProof(dep1, dep2, rule, conclusion, deps) ==
    LET a == add_premise(NewProof, TopRef, dep1)
        b == add_premise(a, TopRef, dep2)
    IN  prepend_step(b, TopRef, Justification(conclusion, rule, deps, <<>>))

SubstitutionConclusions ==
    {And(Bicon(P, Q), And(Q, R)), And(Bicon(P, Q), And(Q, S)),
     And(Bicon(P, Q), And(P, R)), And(Q, R)}

\* The values the metavariables of a clause take in the checked lines.
Atoms == {P, Q}

\* The equivalence rules of the catalog whose patterns hold names only.
NameRules ==
    {"DOUBLE_NEGATION", "DISTRIBUTION", "IDENTITY", "ANNIHILATION", "INVERSE",
     "CONDITIONAL_ABSORPTION", "CONDITIONAL_ANNIHILATION", "CONDITIONAL_IMPLICATION",
     "CONDITIONAL_CONTRAPOSITION", "CONDITIONAL_EXPORTATION", "CONDITIONAL_COMPLEMENT",
     "CONDITIONAL_IDENTITY", "CONDITIONAL_DISTRIBUTION", "CONDITIONAL_REDUCTION",
     "KNIGHTS_AND_KNAVES", "CONDITIONAL_IDEMPOTENCE", "BICONDITIONAL_EQUIVALENCE",
     "BICONDITIONAL_COMMUTATION", "BICONDITIONAL_ASSOCIATION",
     "BICONDITIONAL_REDUCTION", "BICONDITIONAL_COMPLEMENT", "BICONDITIONAL_IDENTITY",
     "BICONDITIONAL_NEGATION"}

\* One premise that is an instance of one side of a clause, and a step
\* citing the clause's rule whose conclusion is an instance of the other
\* side, under the same values of the names or under other values.
ClauseProofs(name) ==
    UNION {LET from == RuleNamed(name)[c][d]
               to == RuleNamed(name)[c][3 - d]
               bindings == [free_vars(from) \cup free_vars(to) -> Atoms]
           IN  {OneStepProof(instantiate(from, b), name, instantiate(to, b2)) :
                   b \in bindings, b2 \in bindings}
           : c \in DOMAIN RuleNamed(name), d \in {1, 2}}

\* One premise (x <-> y) & e1 and a step citing BICONDITIONAL_SUBSTITUTION
\* for (x <-> y) & e2, or the premise citing the step's conclusion.
SubstitutionProofs ==
    LET sides == {P, Q, And(P, Q), And(Q, P), And(Q, Q), Not(P), Not(Q)}
    IN  {OneStepProof(And(Bicon(P, y), e1), "BICONDITIONAL_SUBSTITUTION",
                      And(Bicon(P, y), e2)) :
            y \in {Q, Not(P)}, e1 \in sides, e2 \in sides}

VerifyProofs ==
    {OneStepProof(dep, rule, conclusion) :
        dep \in VerifyExprs, conclusion \in VerifyExprs, rule \in VerifyRules}
    \cup {TwoDepProof(Bicon(P, Q), And(P, R), rule, conclusion, deps) :
             rule \in {"BICONDITIONAL_SUBSTITUTION", "DOUBLE_NEGATION"},
             conclusion \in SubstitutionConclusions,
             deps \in {<<PremRef(1), PremRef(2)>>, <<PremRef(2), PremRef(1)>>}}
    \cup UNION {ClauseProofs(name) : name \in NameRules}
    \cup SubstitutionProofs
    \cup {OneStepProof(Impl(x, y), "CONDITIONAL_COMPLEMENT", Taut) :
             x \in Atoms, y \in Atoms}

VerifyInit ==
    /\ prf \in VerifyProofs
    /\ pud = from_proof(prf)
    /\ selected_line = None
    /\ last = Msg("Nop", None)
    /\ handled = 0
    /\ oracle = IdleOracle
    /\ check = IdleCheck
    /\ view = <<>>

VerifyNext == \E r \in Lines(prf) : VerifyLine(r)

VerifySpec == VerifyInit /\ [][VerifyNext]_vars

(***************************************************************************)
(* Properties of the editor (Spec).                                        *)
(***************************************************************************)
RootPremises == prf.top.premise_list

\* The step just taken handled a Delete { what } on line r.
Deleted(what, r) == last'.kind = "Delete" /\ last'.what = what /\ last'.ref = r

\* C3: whatever messages the editor has handled, the top-level proof has
\* at least one premise.
C3_RootHasPremise == Len(RootPremises) >= 1

\* A Delete of the only top-level premise was handled, and it is still there.
C3_Witness ==
    /\ last.kind = "Delete"
    /\ last.what = "Premise"
    /\ RootPremises = <<last.ref>>
    /\ last.ref \in DOMAIN prf.prem_map

\* C4: a Delete (of a line: what is Premise or Just) on a top-level premise
\* leaves the tree as it is when it is the only top-level premise; when
\* there are two, it removes that premise and nothing else, and one
\* top-level premise is left.
C4_PremiseRemovalGuard ==
    [][\A r \in Range(RootPremises), what \in {"Premise", "Just"} :
          Deleted(what, r) =>
             /\ Len(RootPremises) = 1 => prf' = prf
             /\ Len(RootPremises) = 2 =>
                   /\ prf'.top.premise_list = Retain(RootPremises, r)
                   /\ Len(prf'.top.premise_list) = 1
                   /\ DOMAIN prf'.prem_map = DOMAIN prf.prem_map \ {r}
                   /\ \A q \in DOMAIN prf'.prem_map : prf'.prem_map[q] = prf.prem_map[q]
                   /\ DOMAIN prf'.just_map = DOMAIN prf.just_map
                   /\ DOMAIN prf'.sub_map = DOMAIN prf.sub_map
                   /\ prf'.top.line_list = prf.top.line_list]_vars

\* A Delete removed one of two top-level premises: one is left.
C4_Witness ==
    /\ last.kind = "Delete"
    /\ last.what = "Premise"
    /\ IsPrem(last.ref)
    /\ last.ref \notin DOMAIN prf.prem_map
    /\ Len(RootPremises) = 1

Nodes(p) == Lines(p) \cup DOMAIN p.sub_map

\* Everything that subproof sr encloses, at any depth.
Inside(p, sr) == {g \in Nodes(p) : sr \in Range(Ancestors(p, g))}

\* C6: a Delete { Subproof } on a line of a nested subproof takes away that
\* subproof and the N premises, steps and subproofs it encloses at any
\* depth: none of them is found afterwards, nothing else leaves the tree,
\* and no later step brings a reference back (a reference that is new to
\* the tree has a key that was never handed out).
C6_CascadingDelete ==
    [][/\ \A r \in Lines(prf) :
             Deleted("Subproof", r) /\ parent_of_line(prf, r) # None =>
                LET sr == parent_of_line(prf, r)
                    gone == {sr} \cup Inside(prf, sr)
                IN  /\ \A g \in gone :
                          /\ lookup_pj(prf', g) = None
                          /\ lookup_subproof(prf', g) = None
                          /\ ContainerOf(prf', g) = None
                    /\ Nodes(prf') = Nodes(prf) \ gone
       /\ \A g \in Nodes(prf) : g[2] < prf.next_key
       /\ \A g \in Nodes(prf') \ Nodes(prf) : g[2] >= prf.next_key]_vars

\* Delete { Subproof } on premise 4 of the opened proof removed subproof 3
\* with its N = 4 nested nodes, subproof 5 among them; the lines around it
\* are still there.
C6_Witness ==
    /\ last.kind = "Delete"
    /\ last.what = "Subproof"
    /\ last.ref = PremRef(4)
    /\ {PremRef(4), SubRef(5), PremRef(6), JustRef(7), SubRef(3)} \cap Nodes(prf) = {}
    /\ {PremRef(1), JustRef(2), JustRef(8)} \subseteq Nodes(prf)

\* d comes before x in the subproof that lists both.
Precedes(p, d, x) ==
    \E c \in Containers(p) :
       LET body == SubproofAt(p, c).premise_list \o SubproofAt(p, c).line_list
       IN  \E i, k \in DOMAIN body : body[i] = d /\ body[k] = x /\ i < k

\* d is visible to step j: it precedes j, or a subproof that encloses j.
Visible(p, j, d) == \E x \in {j} \cup Range(Ancestors(p, j)) : Precedes(p, d, x)

Affected(L) ==
    {L} \cup (IF /\ last'.kind = "Delete"
                 /\ last'.what = "Subproof"
                 /\ parent_of_line(prf, L) # None
              THEN {parent_of_line(prf, L)} \cup Inside(prf, parent_of_line(prf, L))
              ELSE {})

\* Node r, listed by subproof k before the step, is listed by k after it.
SameNode(k, r) ==
    /\ k \in Containers(prf')
    /\ r \in Members(SubproofAt(prf', k))
    /\ IsPrem(r) => r \in DOMAIN prf'.prem_map
    /\ IsJust(r) => r \in DOMAIN prf'.just_map
    /\ IsSub(r) => r \in DOMAIN prf'.sub_map

\* The citations of deps whose nodes the step did not remove.
StillThere(deps) ==
    SelectSeq(deps, LAMBDA d : d \notin Nodes(prf) \/ d \in Nodes(prf'))

C1_OracleSoundness == oracle.lhs = oracle.rhs /\ oracle.status # "panicked"

\* The test went through every row of every clause of the 24 rules, the
\* 16 rows of BICONDITIONAL_SUBSTITUTION last.
C1_Witness ==
    /\ oracle.status = "passed"
    /\ oracle.rule = Len(rules)
    /\ oracle.n_rules = Len(rules)
    /\ Len(rules) = 24
    /\ oracle.x = 16

(***************************************************************************)
(* Properties of verify_line (VerifySpec).                                 *)
(***************************************************************************)
\* verify_line was called on a step that cites `rule` with the one
\* dependency expression dep and has the conclusion given.
Verified(rule, dep, conclusion) ==
    /\ check.verdict # ""
    /\ IsJust(check.ref)
    /\ prf.just_map[check.ref].rule = rule
    /\ prf.just_map[check.ref].expr = conclusion
    /\ Len(prf.just_map[check.ref].deps) = 1
    /\ ExprOf(prf, prf.just_map[check.ref].deps[1]) = dep

\* C9: a step citing DOUBLE_NEGATION with the one dependency ~~Q verifies
\* when its conclusion is Q and is Invalid(WrongRule) when it is ~Q.
C9_DoubleNegation ==
    /\ Verified("DOUBLE_NEGATION", Not(Not(Q)), Q) => check.verdict = "Ok"
    /\ Verified("DOUBLE_NEGATION", Not(Not(Q)), Not(Q)) => check.verdict = "WrongRule"

\* verify_line refused the conclusion ~Q from ~~Q by DOUBLE_NEGATION.
C9_Witness ==
    /\ Verified("DOUBLE_NEGATION", Not(Not(Q)), Not(Q))
    /\ check.verdict = "WrongRule"

\* C10: a step citing CONDITIONAL_IMPLICATION with the one dependency
\* P -> Q verifies when its conclusion is ~P | Q and does not when it is
\* P | Q.
C10_ConditionalImplication ==
    /\ Verified("CONDITIONAL_IMPLICATION", Impl(P, Q), Or(Not(P), Q)) =>
          check.verdict = "Ok"
    /\ Verified("CONDITIONAL_IMPLICATION", Impl(P, Q), Or(P, Q)) =>
          check.verdict # "Ok"

\* verify_line accepted the conclusion ~P | Q from P -> Q by
\* CONDITIONAL_IMPLICATION.
C10_Witness ==
    /\ Verified("CONDITIONAL_IMPLICATION", Impl(P, Q), Or(Not(P), Q))
    /\ check.verdict = "Ok"

\* The checked step cites `rule` and the two dependencies dep1, dep2 (in
\* either order) for `conclusion`.
Verified2(rule, dep1, dep2, conclusion) ==
    /\ check.verdict # ""
    /\ IsJust(check.ref)
    /\ prf.just_map[check.ref].rule = rule
    /\ prf.just_map[check.ref].expr = conclusion
    /\ Len(prf.just_map[check.ref].deps) = 2
    /\ {ExprOf(prf, d) : d \in Range(prf.just_map[check.ref].deps)} = {dep1, dep2}

\* C11: a step citing BICONDITIONAL_SUBSTITUTION with the dependencies
\* P <-> Q and P & R verifies when its conclusion is (P <-> Q) & (Q & R),
\* the clause's S being bound to the context _ & R, and does not verify
\* when its conclusion is (P <-> Q) & (Q & S).
C11_BiconditionalSubstitution ==
    /\ Verified2("BICONDITIONAL_SUBSTITUTION", Bicon(P, Q), And(P, R),
                 And(Bicon(P, Q), And(Q, R))) =>
          /\ check.verdict = "Ok"
          /\ LET m == match(RuleNamed("BICONDITIONAL_SUBSTITUTION")[1][1],
                            And(Bicon(P, Q), And(P, R)))
             IN  m.ok /\ m.b["S"].args[1] = And(Hole, R)
    /\ Verified2("BICONDITIONAL_SUBSTITUTION", Bicon(P, Q), And(P, R),
                 And(Bicon(P, Q), And(Q, S))) =>
          check.verdict # "Ok"

\* verify_line accepted (P <-> Q) & (Q & R) from P <-> Q and P & R by
\* BICONDITIONAL_SUBSTITUTION.
C11_Witness ==
    /\ Verified2("BICONDITIONAL_SUBSTITUTION", Bicon(P, Q), And(P, R),
                 And(Bicon(P, Q), And(Q, R)))
    /\ check.verdict = "Ok"

\* C12: the pattern phi -> phi of CONDITIONAL_COMPLEMENT matches X -> Y
\* exactly when X and Y are structurally equal, so a step citing the rule
\* for the conclusion T from the dependency X -> Y verifies exactly then.
C12_RepeatedMetavariable ==
    \A x \in Atoms, y \in Atoms :
       Verified("CONDITIONAL_COMPLEMENT", Impl(x, y), Taut) =>
          /\ match(RuleNamed("CONDITIONAL_COMPLEMENT")[1][1], Impl(x, y)).ok <=> x = y
          /\ check.verdict = "Ok" <=> x = y

\* verify_line refused the conclusion T from P -> Q by
\* CONDITIONAL_COMPLEMENT.
C12_Witness ==
    /\ Verified("CONDITIONAL_COMPLEMENT", Impl(P, Q), Taut)
    /\ check.verdict = "WrongRule"

\* The checked line is a step citing one dependency.
CheckedStep ==
    /\ check.verdict # ""
    /\ IsJust(check.ref)
    /\ Len(prf.just_map[check.ref].deps) = 1

C14_MatchInstantiate ==
    CheckedStep =>
       LET j == prf.just_map[check.ref]
           rule == RuleNamed(j.rule)
       IN  (\E c \in DOMAIN rule, d \in {1, 2} :
               LET m == match(rule[c][d], ExprOf(prf, j.deps[1]))
               IN  m.ok /\ instantiate(rule[c][3 - d], m.b) = j.expr)
           => check.verdict = "Ok"

\* verify_line accepted (P <-> Q) & (Q & Q), the right side of the clause
\* of BICONDITIONAL_SUBSTITUTION under the bindings of its left side
\* matched against (P <-> Q) & (P & Q).
C14_Witness ==
    /\ Verified("BICONDITIONAL_SUBSTITUTION", And(Bicon(P, Q), And(P, Q)),
                And(Bicon(P, Q), And(Q, Q)))
    /\ instantiate(BICONDITIONAL_SUBSTITUTION[1][2],
                   match(BICONDITIONAL_SUBSTITUTION[1][1],
                         And(Bicon(P, Q), And(P, Q))).b)
          = And(Bicon(P, Q), And(Q, Q))
    /\ check.verdict = "Ok"

\* C15: verify_line returns success on every premise of the tree, a
\* premise of the top-level proof or the assumption of a subproof,
\* whatever its expression; its feedback is never Error.
C15_PremisesVerify ==
    \A r \in Lines(prf) :
       IsPrem(r) =>
          /\ verify_line(prf, r) = "Ok"
          /\ view[r].span \in {"", "Parse error", "Premise", "Assumption"}

\* A premise of the top-level proof, just edited, and an assumption of a
\* subproof, of different expressions, were both verified.
C15_Witness ==
    \E r \in Lines(prf), a \in Lines(prf) :
       /\ IsPrem(r) /\ IsPrem(a)
       /\ last.kind = "LineChanged" /\ last.ref = r
       /\ view[r].span = "Premise" /\ view[r].verdict = "Ok"
       /\ view[a].span = "Assumption" /\ view[a].verdict = "Ok"
       /\ ExprOf(prf, r) # ExprOf(prf, a)

\* The stored input text of a line: "" when there is none.
InputOf(r) == IF r \in DOMAIN pud.ref_to_input THEN pud.ref_to_input[r] ELSE ""

\* C16: the feedback of a line holds a verdict of verify_line only when
\* the line's stored input text is not empty and parses: a line without
\* input text, or with the empty text, gets no feedback at all, and a
\* text that does not parse gets "Parse error" and no verdict.
C16_FeedbackGuards ==
    \A r \in Lines(prf) :
       /\ InputOf(r) = "" => view[r] = [span |-> "", verdict |-> ""]
       /\ (InputOf(r) # "" /\ parse(InputOf(r)) = NoExpr) =>
             view[r] = [span |-> "Parse error", verdict |-> ""]
       /\ view[r].verdict # "" =>
             (InputOf(r) # "" /\ parse(InputOf(r)) # NoExpr)

\* The text of a line was changed to one that does not parse and its
\* feedback is "Parse error"; another line has no input text and no
\* feedback, a third was verified.
C16_Witness ==
    /\ last.kind = "LineChanged"
    /\ parse(last.input) = NoExpr
    /\ view[last.ref].span = "Parse error"
    /\ \E r \in Lines(prf) : r \notin DOMAIN pud.ref_to_input /\ view[r].span = ""
    /\ \E r \in Lines(prf) : view[r].verdict # ""

CreatedEmpty == handled = 0 /\ prf = create("none").prf

\* The tree holds exactly one premise, the default one, at the top level,
\* and no subproof.
OneDefaultPremise ==
    /\ Len(prf.top.premise_list) = 1
    /\ DOMAIN prf.prem_map = Range(prf.top.premise_list)
    /\ \A r \in DOMAIN prf.prem_map : prf.prem_map[r] = new_empty_premise
    /\ DOMAIN prf.sub_map = {}

\* C18 as stated: the empty proof built by new_empty_proof has exactly one
\* default premise and exactly one default step, and no subproof.
C18_AsStated ==
    CreatedEmpty =>
       /\ OneDefaultPremise
       /\ Len(prf.top.line_list) = 1
       /\ DOMAIN prf.just_map = Range(prf.top.line_list)
       /\ \A r \in DOMAIN prf.just_map : prf.just_map[r] = new_empty_step

\* C18: the empty proof built by new_empty_proof has exactly one default
\* premise, no step and no subproof.
C18_EmptyProof ==
    CreatedEmpty =>
       /\ OneDefaultPremise
       /\ prf.top.line_list = <<>>
       /\ DOMAIN prf.just_map = {}

\* The widget was created without a file: its one line is a premise with
\* the empty input text.
C18_Witness ==
    /\ CreatedEmpty
    /\ \E r \in Lines(prf) :
          /\ Lines(prf) = {r}
          /\ IsPrem(r)
          /\ pud.ref_to_input[r] = ""

\* C19: an Insert of kind Subproof whose insertion point is a step or a
\* subproof adds exactly one subproof, next to the insertion point in the
\* same list (after it or before it, as `after` says), holding one
\* default premise and one default step and nothing else; no other node
\* is added and none is removed.
C19_InsertSubproof ==
    [][(last'.kind = "Insert" /\ last'.what = "Subproof") =>
          LET ip == insertion_point(prf, last'.relative_to, last'.ref)
          IN  (ip # None /\ (IsJust(ip) \/ IsSub(ip))) =>
                 LET new == Nodes(prf') \ Nodes(prf)
                     k == ContainerOf(prf', ip)
                     list == SubproofAt(prf', k).line_list
                 IN  /\ Nodes(prf) \subseteq Nodes(prf')
                     /\ k = ContainerOf(prf, ip)
                     /\ \E sr \in new, pr \in new, jr \in new :
                           /\ new = {sr, pr, jr}
                           /\ IsSub(sr) /\ IsPrem(pr) /\ IsJust(jr)
                           /\ prf'.sub_map[sr] =
                                 [premise_list |-> <<pr>>, line_list |-> <<jr>>]
                           /\ prf'.prem_map[pr] = new_empty_premise
                           /\ prf'.just_map[jr] = new_empty_step
                           /\ IndexOf(list, sr) =
                                 IndexOf(list, ip) + (IF last'.after THEN 1 ELSE -1)
                           /\ Retain(list, sr) = SubproofAt(prf, k).line_list]_vars

\* An Insert of kind Subproof, after, relative to the subproof that
\* encloses the line, was carried out: the selected line is the premise of
\* a subproof of one premise and one step that follows that subproof.
C19_Witness ==
    /\ last.kind = "Insert" /\ last.what = "Subproof"
    /\ last.relative_to = "Subproof" /\ last.after
    /\ \E sr \in DOMAIN prf.sub_map :
          /\ prf.sub_map[sr].premise_list = <<selected_line>>
          /\ Len(prf.sub_map[sr].line_list) = 1
          /\ LET list == SubproofAt(prf, ContainerOf(prf, sr)).line_list
             IN  IndexOf(list, sr) = IndexOf(list, parent_of_line(prf, last.ref)) + 1

\* The Insert cannot be carried out: a subproof at an insertion point
\* that is a premise, or an insertion relative to the enclosing subproof
\* of a line of the top-level proof.
CannotInsert(p, m) ==
    \/ m.relative_to = "Subproof" /\ parent_of_line(p, m.ref) = None
    \/ /\ m.what = "Subproof"
       /\ IsPrem(insertion_point(p, m.relative_to, m.ref))

\* C20: an Insert that cannot be carried out leaves the proof tree, the
\* UI data and the selected line as they were.
C20_RefusedInsert ==
    [][(last'.kind = "Insert" /\ CannotInsert(prf, last')) =>
          /\ prf' = prf
          /\ pud' = pud
          /\ selected_line' = selected_line]_vars

\* With another line selected, an Insert of a subproof at a premise was
\* asked for and nothing was inserted.
C20_Witness ==
    /\ last.kind = "Insert" /\ last.what = "Subproof"
    /\ last.relative_to = "Premise"
    /\ IsPrem(last.ref)
    /\ selected_line # None /\ selected_line # last.ref
    /\ prf = create("file").prf

\* C21: a Delete of kind Subproof on a line that no subproof encloses (a
\* premise or a step of the top-level proof) removes nothing: the tree is
\* unchanged.
C21_RootNotDeleted ==
    [][(/\ last'.kind = "Delete"
        /\ last'.what = "Subproof"
        /\ parent_of_line(prf, last'.ref) = None) => prf' = prf]_vars

\* A Delete of kind Subproof was asked on a step of the top-level proof
\* of the opened file, and the tree is the opened one.
C21_Witness ==
    /\ last.kind = "Delete" /\ last.what = "Subproof"
    /\ IsJust(last.ref)
    /\ last.ref \in Range(prf.top.line_list)
    /\ prf = create("file").prf

\* C29: after the update on a Delete, of any item kind and whether or not
\* it removed anything, no line is selected.
C29_DeleteDeselects == last.kind = "Delete" => selected_line = None

\* A Delete of kind Just took a step of the opened file away after
\* another message, and no line is selected.
C29_Witness ==
    /\ handled = 2
    /\ last.kind = "Delete" /\ last.what = "Just"
    /\ IsJust(last.ref)
    /\ last.ref \notin Lines(prf)
    /\ selected_line = None

\* C30: the selected line, when there is one, is a premise or a
\* justification of the tree as it is now; after an Insert that is carried
\* out it is the line the Insert created, of the kind asked for, and for an
\* inserted subproof the premise of the new subproof.
C30_SelectionInTree ==
    /\ [](selected_line # None => selected_line \in Lines(prf))
    /\ [][(last'.kind = "Insert" /\ ~CannotInsert(prf, last')) =>
             LET new == Lines(prf') \ Lines(prf)
             IN  /\ selected_line' \in new
                 /\ CASE last'.what = "Premise" ->
                            IsPrem(selected_line') /\ new = {selected_line'}
                       [] last'.what = "Just" ->
                            IsJust(selected_line') /\ new = {selected_line'}
                       [] last'.what = "Subproof" ->
                            \E sr \in DOMAIN prf'.sub_map \ DOMAIN prf.sub_map :
                               prf'.sub_map[sr].premise_list = <<selected_line'>>]_vars

\* An Insert of kind Premise was carried out after another message: the
\* selected line is the premise it created, the last key handed out.
C30_Witness ==
    /\ handled = 2
    /\ last.kind = "Insert" /\ last.what = "Premise"
    /\ selected_line = PremRef(prf.next_key - 1)
    /\ selected_line \in DOMAIN prf.prem_map
    /\ prf.prem_map[selected_line] = new_empty_premise

\* C31: LineChanged(r, text) changes at most the expression of line r.
\* The stored input text of r becomes text and no other stored text
\* changes; if text does not parse the proof tree is as before; if it
\* parses, the expression of r is replaced by the parsed one while the
\* rule and the dependency lists of r, every other line and the structure
\* of the tree are as before.
C31_LineChangedFrame ==
    [][last'.kind = "LineChanged" =>
          LET r == last'.ref
              e == parse(last'.input)
          IN  /\ DOMAIN pud'.ref_to_input = DOMAIN pud.ref_to_input \cup {r}
              /\ pud'.ref_to_input[r] = last'.input
              /\ \A q \in DOMAIN pud.ref_to_input \ {r} :
                     pud'.ref_to_input[q] = pud.ref_to_input[q]
              /\ pud'.ref_to_line_depth = pud.ref_to_line_depth
              /\ selected_line' = selected_line
              /\ IF e = NoExpr THEN prf' = prf
                 ELSE /\ prf'.sub_map = prf.sub_map
                      /\ prf'.top = prf.top
                      /\ prf'.next_key = prf.next_key
                      /\ DOMAIN prf'.prem_map = DOMAIN prf.prem_map
                      /\ DOMAIN prf'.just_map = DOMAIN prf.just_map
                      /\ \A q \in DOMAIN prf.prem_map :
                             prf'.prem_map[q] = IF q = r THEN e ELSE prf.prem_map[q]
                      /\ \A q \in DOMAIN prf.just_map :
                             prf'.just_map[q] =
                                IF q = r THEN [prf.just_map[q] EXCEPT !.expr = e]
                                ELSE prf.just_map[q]]_vars

\* Step 2 of the opened file, ~~Q by DOUBLE_NEGATION from premise 1, was
\* edited to Q, and then a text that does not parse was typed on a line.
C31_Witness ==
    /\ handled = 2
    /\ last.kind = "LineChanged"
    /\ parse(last.input) = NoExpr
    /\ pud.ref_to_input[last.ref] = last.input
    /\ JustRef(2) \in DOMAIN prf.just_map
    /\ prf.just_map[JustRef(2)] =
          Justification(Var("Q"), "DOUBLE_NEGATION", <<PremRef(1)>>, <<>>)

\* C32: an Insert of kind Just whose insertion point is a premise adds
\* exactly one node, a default step, as the first line of the subproof
\* that lists the premise (the top-level proof for a premise of it), ahead
\* of the lines that subproof had; the premises, the other lines and the
\* other subproofs are as before.
C32_InsertStepAtPremise ==
    [][(last'.kind = "Insert" /\ last'.what = "Just") =>
          LET ip == insertion_point(prf, last'.relative_to, last'.ref)
          IN  (ip # None /\ IsPrem(ip)) =>
                 LET new == Nodes(prf') \ Nodes(prf)
                     k == ContainerOf(prf, ip)
                 IN  /\ Nodes(prf) \subseteq Nodes(prf')
                     /\ k = (IF parent_of_line(prf, ip) = None THEN TopRef
                             ELSE parent_of_line(prf, ip))
                     /\ \E jr \in new :
                           /\ new = {jr}
                           /\ IsJust(jr)
                           /\ prf'.just_map[jr] = new_empty_step
                           /\ SubproofAt(prf', k).line_list =
                                 <<jr>> \o SubproofAt(prf, k).line_list
                     /\ SubproofAt(prf', k).premise_list =
                           SubproofAt(prf, k).premise_list
                     /\ prf'.prem_map = prf.prem_map
                     /\ \A q \in DOMAIN prf.just_map :
                           prf'.just_map[q] = prf.just_map[q]
                     /\ \A c \in Containers(prf) \ {k} :
                           SubproofAt(prf', c) = SubproofAt(prf, c)]_vars

\* A step was inserted at premise 3 of the opened file, which subproof 3
\* lists: the new default step is selected and is the first line of
\* subproof 3, ahead of subproof 5.
C32_Witness ==
    /\ last.kind = "Insert" /\ last.what = "Just"
    /\ last.ref = PremRef(4)
    /\ last.relative_to # "Subproof"
    /\ selected_line # None /\ IsJust(selected_line)
    /\ SubRef(3) \in DOMAIN prf.sub_map
    /\ prf.sub_map[SubRef(3)] =
          [premise_list |-> <<PremRef(4)>>, line_list |-> <<selected_line, SubRef(5)>>]
    /\ prf.just_map[selected_line] = new_empty_step

(***************************************************************************)
(* Properties of the truth-table test on the catalog (OracleSpec).         *)
(***************************************************************************)
\* The clause the test is at.
CurrentClause == Clause(oracle.rule, oracle.clause)

\* Every <<name, number of arguments>> an expression uses.
RECURSIVE Uses(_)
Uses(e) ==
    (IF e.op \in {"var", "apply"} THEN {<<e.name, Len(e.args)>>} ELSE {})
    \cup SeqUnion([i \in DOMAIN e.args |-> Uses(e.args[i])])

\* C22: in every clause of every rule of the catalog each name is used
\* with one arity in lhs and rhs together, S with one argument and every
\* other name with none, and the arity map inferred for the clause has
\* exactly the clause's free names as keys, each with that arity.
C22_SingleArity ==
    LET cl == CurrentClause
        uses == Uses(cl.lhs) \cup Uses(cl.rhs)
    IN  /\ \A u \in uses, v \in uses : u[1] = v[1] => u[2] = v[2]
        /\ \A u \in uses : u[2] = (IF u[1] = "S" THEN 1 ELSE 0)
        /\ DOMAIN cl.arities = free_vars(cl.lhs) \cup free_vars(cl.rhs)
        /\ \A u \in uses : cl.arities[u[1]] = u[2]

\* The test is at the clause of BICONDITIONAL_SUBSTITUTION, on the way
\* through the whole catalog: S has arity 1, phi and psi arity 0.
C22_Witness ==
    /\ oracle.status = "running"
    /\ oracle.n_rules = Len(catalog)
    /\ catalog[oracle.rule] = BICONDITIONAL_SUBSTITUTION
    /\ CurrentClause.arities = ("S" :> 1) @@ ("phi" :> 0) @@ ("psi" :> 0)
    /\ oracle.x > 0

\* The test at o2 is further on than at o1: a later rule, a later clause
\* of the rule, a later row of the clause, or over.
Later(o1, o2) ==
    \/ o2.rule > o1.rule
    \/ o2.rule = o1.rule /\ o2.clause > o1.clause
    \/ o2.rule = o1.rule /\ o2.clause = o1.clause /\ o2.x > o1.x
    \/ /\ o2.rule = o1.rule /\ o2.clause = o1.clause /\ o2.x = o1.x
       /\ o1.status = "running" /\ o2.status = "passed"

\* C23: the test ends on the whole catalog: at every clause the table has
\* at most 4 slots (the sum of 2^arity over the clause's names), so the
\* counter of its rows never passes 16; the test stays within the rules,
\* their clauses and the rows, and every step takes it further on.
C23_Terminates ==
    [](/\ CurrentClause.total_arity <= 4
       /\ oracle.x <= Pow2(CurrentClause.total_arity)
       /\ oracle.x <= 16
       /\ oracle.rule <= oracle.n_rules
       /\ oracle.clause <= Len(catalog[oracle.rule])
       /\ oracle.status \in {"running", "passed"})
    /\ [][Later(oracle, oracle')]_vars

\* The loop over the whole catalog is over: it left the last clause of
\* COND_REDUCTION, the last rule.
C23_Witness ==
    /\ oracle.status = "passed"
    /\ oracle.n_rules = Len(catalog)
    /\ oracle.rule = Len(catalog)
    /\ catalog[oracle.rule] = COND_REDUCTION
    /\ oracle.clause = Len(COND_REDUCTION)

\* The tables for_each_truthtable has handed to the closure so far at the
\* current clause, one for each counter below oracle.x.
Handed ==
    {for_each_truthtable(CurrentClause.total_arity, k) : k \in 0..(oracle.x - 1)}

\* C24: for_each_truthtable(n, f) calls f once for each counter x of
\* 0 .. 2^n - 1, with a vector of n booleans whose slot i is bit i of x:
\* the vectors handed over are pairwise different, and once the 2^n calls
\* are made every vector of n booleans has been handed over.
C24_EveryRowOnce ==
    LET n == CurrentClause.total_arity
    IN  /\ oracle.x <= Pow2(n)
        /\ \A t \in Handed : Len(t) = n /\ t \in [1..n -> BOOLEAN]
        /\ \A k \in 0..(oracle.x - 1), i \in 0..(n - 1) :
               for_each_truthtable(n, k)[i + 1] = ((k \div Pow2(i)) % 2 = 1)
        /\ Cardinality(Handed) = oracle.x
        /\ oracle.x = Pow2(n) => Handed = [1..n -> BOOLEAN]

\* The 16 calls of a clause with 4 slots are made and the test goes on.
C24_Witness ==
    /\ oracle.status = "running"
    /\ CurrentClause.total_arity = 4
    /\ oracle.x = 16
    /\ Cardinality(Handed) = 16

\* The slices an environment gives the names of fvs, one after the other.
RECURSIVE Slices(_, _)
Slices(fvs, env) ==
    IF fvs = <<>> THEN <<>> ELSE env[Head(fvs)] \o Slices(Tail(fvs), env)

\* The position of a name in the order of String's Ord.
Rank(name) == CHOOSE k \in DOMAIN NameOrder : NameOrder[k] = name

\* C25: the environment of a clause gives every free name, in sorted
\* name order, a slice of exactly 2^arity slots of the table; laid end to
\* end in that order the slices are the table, slot by slot: they are
\* contiguous, disjoint and cover it, the running index ends at the
\* table's length, no slice reaches outside and no slot is left unused.
\* Checked on the table whose slots hold their own positions.
C25_EnvSlices ==
    LET cl == CurrentClause
        slots == [i \in 1..cl.total_arity |-> i]
        env == env_of(cl.fvs, cl.arities, slots, 0)
    IN  /\ {cl.fvs[k] : k \in DOMAIN cl.fvs} = free_vars(cl.lhs) \cup free_vars(cl.rhs)
        /\ \A j, k \in DOMAIN cl.fvs : j < k => Rank(cl.fvs[j]) < Rank(cl.fvs[k])
        /\ DOMAIN env = {cl.fvs[k] : k \in DOMAIN cl.fvs}
        /\ \A k \in DOMAIN cl.fvs : Len(env[cl.fvs[k]]) = Pow2(cl.arities[cl.fvs[k]])
        /\ Slices(cl.fvs, env) = slots
        /\ Len(Slices(cl.fvs, env)) = cl.total_arity

\* A row of BICONDITIONAL_SUBSTITUTION was evaluated: S has slots 1 and 2
\* of the table, phi slot 3 and psi slot 4.
C25_Witness ==
    /\ oracle.status = "running"
    /\ catalog[oracle.rule] = BICONDITIONAL_SUBSTITUTION
    /\ oracle.x > 0
    /\ CurrentClause.fvs = <<"S", "phi", "psi">>
    /\ env_of(CurrentClause.fvs, CurrentClause.arities, <<1, 2, 3, 4>>, 0)
          = ("S" :> <<1, 2>>) @@ ("phi" :> <<3>>) @@ ("psi" :> <<4>>)

\* The clauses of a sequence of rules.
ClausesOf(rs) == UNION {{rs[r][c] : c \in DOMAIN rs[r]} : r \in DOMAIN rs}

\* C26: the five rules the test does not list (CONJUNCTION, DISJUNCTION,
\* NEGATION, BICOND_REDUCTION, COND_REDUCTION) are sound as well: each of
\* their clauses is a clause of IDENTITY, ANNIHILATION, INVERSE,
\* BICONDITIONAL_IDENTITY, CONDITIONAL_ANNIHILATION or CONDITIONAL_IDENTITY,
\* all six in the test's list, and run on them the test finds lhs and rhs
\* equal on every row.
C26_UnlistedRulesSound ==
    LET unlisted == <<CONJUNCTION, DISJUNCTION, NEGATION, BICOND_REDUCTION,
                      COND_REDUCTION>>
        twins == <<IDENTITY, ANNIHILATION, INVERSE, BICONDITIONAL_IDENTITY,
                   CONDITIONAL_ANNIHILATION, CONDITIONAL_IDENTITY>>
    IN  /\ catalog = rules \o unlisted
        /\ ClausesOf(unlisted) \subseteq ClausesOf(twins)
        /\ \A t \in DOMAIN twins : \E r \in DOMAIN rules : rules[r] = twins[t]
        /\ oracle.rule > Len(rules) =>
              /\ <<CurrentClause.lhs, CurrentClause.rhs>> \in ClausesOf(twins)
              /\ oracle.lhs = oracle.rhs
              /\ oracle.status # "panicked"

\* Both rows of the third clause of COND_REDUCTION, phi -> _|_ and ~phi,
\* were evaluated and agreed.
C26_Witness ==
    /\ oracle.status = "running"
    /\ oracle.rule > Len(rules)
    /\ catalog[oracle.rule] = COND_REDUCTION
    /\ oracle.clause = 3
    /\ CurrentClause.rhs = Not(phi)
    /\ oracle.x = 2

(***************************************************************************)
(* Properties of ToggleDependency (ToggleSpec).                            *)
(***************************************************************************)
\* The step is the update on ToggleDependency { dep } for line r.
Toggled(dep, r) ==
    last'.kind = "ToggleDependency" /\ last'.dep = dep /\ last'.ref = r

\* s is strictly ascending in the Ord of its references.
Ascending(s) == \A i \in 1..(Len(s) - 1) : RefLess(s[i], s[i + 1])

\* C27: ToggleDependency is an involution: the same message once more,
\* right after its update, gives the justification the set of line
\* dependencies and the set of subproof dependencies it had before.
C27_ToggleTwice ==
    [][\A r \in Lines(prf), dep \in Lines(prf) \cup DOMAIN prf.sub_map :
          Toggled(dep, r) /\ IsJust(r) =>
              LET before == prf.just_map[r]
                  again == ToggleIn(prf', dep, r).just_map[r]
              IN  /\ prf' = ToggleIn(prf, dep, r)
                  /\ prf' # prf
                  /\ Range(again.deps) = Range(before.deps)
                  /\ Range(again.sdeps) = Range(before.sdeps)]_vars

\* Two updates on the same ToggleDependency for step 8 of the opened file:
\* the proof is the file's again.
C27_Witness ==
    /\ handled = 2
    /\ last.kind = "ToggleDependency"
    /\ last.ref = JustRef(8)
    /\ last.dep = PremRef(1)
    /\ prf = create("file").prf
    /\ PremRef(1) \notin Range(prf.just_map[JustRef(8)].deps)

\* C28: one ToggleDependency on a justification changes the membership of
\* dep in the list of its kind and nothing else: dep is added if it was
\* absent and removed if it was present, the list that results is strictly
\* ascending, without duplicates, and the expression, the rule, the other
\* list, every other line and the structure of the tree are as before; on
\* a premise the tree is as before.
C28_ToggleFrame ==
    [][\A r \in Lines(prf), dep \in Lines(prf) \cup DOMAIN prf.sub_map :
          Toggled(dep, r) =>
              IF IsJust(r)
              THEN LET j == prf.just_map[r]
                       k == prf'.just_map[r]
                       old == IF IsSub(dep) THEN j.sdeps ELSE j.deps
                       new == IF IsSub(dep) THEN k.sdeps ELSE k.deps
                   IN  /\ Range(new) = IF dep \in Range(old)
                                       THEN Range(old) \ {dep}
                                       ELSE Range(old) \cup {dep}
                       /\ Ascending(new)
                       /\ Cardinality(Range(new)) = Len(new)
                       /\ k.expr = j.expr /\ k.rule = j.rule
                       /\ IF IsSub(dep) THEN k.deps = j.deps ELSE k.sdeps = j.sdeps
                       /\ DOMAIN prf'.just_map = DOMAIN prf.just_map
                       /\ \A q \in DOMAIN prf.just_map \ {r} :
                              prf'.just_map[q] = prf.just_map[q]
                       /\ prf'.prem_map = prf.prem_map
                       /\ prf'.sub_map = prf.sub_map
                       /\ prf'.top = prf.top
                       /\ prf'.next_key = prf.next_key
              ELSE prf' = prf]_vars

\* Subproof 5 was added to the subproof dependencies of step 8, next to
\* subproof 3, and a ToggleDependency for premise 1 came after.
C28_Witness ==
    /\ handled = 2
    /\ last.kind = "ToggleDependency"
    /\ IsPrem(last.ref)
    /\ JustRef(8) \in DOMAIN prf.just_map
    /\ prf.just_map[JustRef(8)].sdeps = <<SubRef(3), SubRef(5)>>
    /\ prf.just_map[JustRef(8)].deps = <<JustRef(2)>>

====
